---- MODULE Spec2Model ----
(***************************************************************************)
(* A model of the llmkit request pipeline (src/src/llmkit): input          *)
(* normalization, the strict allowlist, prompt assembly, the provider      *)
(* adapters and the orchestrator LLMClient.run.                            *)
(*                                                                         *)
(* Python values are tagged records (JNull, JStr, JInt, JBool, JList,      *)
(* JObj).  A Python string is a sequence of atoms: single characters, and  *)
(* for fixed literals of the source, whole non-blank chunks.  A call that  *)
(* can raise returns Ok(value) or Raise(type, function, message).          *)
(***************************************************************************)
EXTENDS Integers, Sequences, FiniteSets, TLC

VARIABLES
    fs,        \* the files under project_root: path -> file state
    environ,   \* os.environ: name -> string (absent names are unset)
    adapters,  \* LLMClient._adapters: provider -> adapter object
    req,       \* per invocation: the raw request passed to run
    pc,        \* per invocation: the position inside run
    spec,      \* per invocation: the local `spec` (InputSpec) of run
    prepared,  \* per invocation: the local `prepared` (PreparedRequest)
    meta,      \* per invocation: the local `meta` of run
    result,    \* per invocation: what run returned (or that it raised)
    wire,      \* every HTTP request posted so far, in order
    arg,       \* harness: the input a pure function is applied to
    ret        \* harness: its result

vars == <<fs, environ, adapters, req, pc, spec, prepared, meta, result, wire, arg, ret>>

(***************************************************************************)
(* Bounds of the model.                                                    *)
(***************************************************************************)
\* longest run of blanks put around a string input
MaxPad == 1
\* longest messages array drawn as an input
MaxMsgs == 2

(***************************************************************************)
(* Python values.                                                          *)
(***************************************************************************)
JNull == [t |-> "null"]
JStr(s) == [t |-> "str", s |-> s]
JInt(n) == [t |-> "int", n |-> n]
JBool(b) == [t |-> "bool", b |-> b]
JList(l) == [t |-> "list", l |-> l]
JObj(o) == [t |-> "obj", o |-> o]

EmptyObj == JObj(<<>>)

\* a dict literal {k: v, ...} of the source, given as a record
mk_obj(rec) == JObj([key \in {<<n>> : n \in DOMAIN rec} |-> rec[key[1]]])

\* bool(v)
Truthy(v) ==
    CASE v.t = "null" -> FALSE
      [] v.t = "str" -> v.s # <<>>
      [] v.t = "int" -> v.n # 0
      [] v.t = "bool" -> v.b
      [] v.t = "list" -> v.l # <<>>
      [] v.t = "obj" -> DOMAIN v.o # {}
      [] OTHER -> TRUE

\* type(v).__name__
type_name(v) ==
    CASE v.t = "null" -> "NoneType"
      [] v.t = "str" -> "str"
      [] v.t = "int" -> "int"
      [] v.t = "bool" -> "bool"
      [] v.t = "list" -> "list"
      [] v.t = "obj" -> "dict"
      [] OTHER -> "object"

Ok(v) == [ok |-> TRUE, val |-> v]
Raise(type, where, msg) == [ok |-> FALSE, exc |-> type, at |-> where, msg |-> msg]

\* the AttributeError of v.attr for a value that has no such attribute
no_attr(v, attr, where) ==
    Raise("AttributeError", where,
          <<"'", type_name(v), "' object has no attribute '", attr, "'">>)

\* d.get(key) of a dict, for a key given as a string value (a sequence of atoms)
dict_get_s(d, key) == IF key \in DOMAIN d.o THEN d.o[key] ELSE JNull

\* d.get(k) and d.get(k, dflt) of a dict, for a literal key k of the source
dict_get(d, k) == dict_get_s(d, <<k>>)
dict_get_default(d, k, dflt) == IF <<k>> \in DOMAIN d.o THEN d.o[<<k>>] ELSE dflt

\* (v or "")
or_empty(v) == IF Truthy(v) THEN v ELSE JStr(<<>>)

(***************************************************************************)
(* Strings.                                                                *)
(***************************************************************************)
Whitespace == {" ", "\t", "\n"}

Uppers == <<"A", "D", "E", "F", "G", "I", "L", "M", "N", "O", "P", "R", "S", "T", "U", "V", "Y">>
Lowers == <<"a", "d", "e", "f", "g", "i", "l", "m", "n", "o", "p", "r", "s", "t", "u", "v", "y">>

lower_char(c) ==
    IF \E i \in DOMAIN Uppers : Uppers[i] = c
    THEN Lowers[CHOOSE i \in DOMAIN Uppers : Uppers[i] = c]
    ELSE c

upper_char(c) ==
    IF \E i \in DOMAIN Lowers : Lowers[i] = c
    THEN Uppers[CHOOSE i \in DOMAIN Lowers : Lowers[i] = c]
    ELSE c

RECURSIVE lower(_)
\* str.lower
lower(s) == IF s = <<>> THEN <<>> ELSE <<lower_char(Head(s))>> \o lower(Tail(s))

RECURSIVE upper(_)
\* str.upper
upper(s) == IF s = <<>> THEN <<>> ELSE <<upper_char(Head(s))>> \o upper(Tail(s))

RECURSIVE lstrip(_)
lstrip(s) == IF s # <<>> /\ Head(s) \in Whitespace THEN lstrip(Tail(s)) ELSE s

RECURSIVE rstrip(_)
rstrip(s) ==
    IF s # <<>> /\ s[Len(s)] \in Whitespace THEN rstrip(SubSeq(s, 1, Len(s) - 1)) ELSE s

\* str.strip
strip(s) == rstrip(lstrip(s))

S_openai == <<"o", "p", "e", "n", "a", "i">>
S_ytl == <<"y", "t", "l">>
S_gemini == <<"g", "e", "m", "i", "n", "i">>
S_azure == <<"a", "z", "u", "r", "e">>

S_system == <<"s", "y", "s", "t", "e", "m">>
S_developer == <<"d", "e", "v", "e", "l", "o", "p", "e", "r">>
S_user == <<"u", "s", "e", "r">>
S_assistant == <<"a", "s", "s", "i", "s", "t", "a", "n", "t">>
S_tool == <<"t", "o", "o", "l">>

S_true == <<"t", "r", "u", "e">>
S_false == <<"f", "a", "l", "s", "e">>
S_yes == <<"y", "e", "s">>
S_no == <<"n", "o">>

Digits == <<"0", "1", "2", "3", "4", "5", "6", "7", "8", "9">>

RECURSIVE nat_str(_)
nat_str(n) == IF n < 10 THEN <<Digits[n + 1]>> ELSE nat_str(n \div 10) \o <<Digits[(n % 10) + 1]>>

\* str(v)
py_str(v) ==
    CASE v.t = "null" -> <<"N", "o", "n", "e">>
      [] v.t = "str" -> v.s
      [] v.t = "int" -> IF v.n < 0 THEN <<"-">> \o nat_str(0 - v.n) ELSE nat_str(v.n)
      [] v.t = "bool" -> IF v.b THEN <<"T", "r", "u", "e">> ELSE <<"F", "a", "l", "s", "e">>
      [] v.t = "list" -> <<"[", "...", "]">>
      [] v.t = "obj" -> <<"{", "...", "}">>
      [] OTHER -> <<"<", "object", ">">>

(***************************************************************************)
(* The file system under project_root, as the pipeline reads it.  A file   *)
(* is absent, unreadable, a text file, or (the allowlist) a YAML file      *)
(* given by the document it parses to, or one with a syntax error.         *)
(***************************************************************************)
Absent == [st |-> "absent"]
Unreadable == [st |-> "unreadable"]
TextFile(s) == [st |-> "text", s |-> s]
YamlFile(doc) == [st |-> "yaml", doc |-> doc]
BadYaml == [st |-> "badyaml"]

file_at(files, path) == IF path \in DOMAIN files THEN files[path] ELSE Absent

\* Path.exists
path_exists(files, path) == file_at(files, path).st # "absent"

\* Path.read_text
read_text(files, path, where) ==
    LET f == file_at(files, path) IN
    CASE f.st = "absent" -> Raise("FileNotFoundError", where, <<"No such file or directory">>)
      [] f.st = "unreadable" -> Raise("PermissionError", where, <<"Permission denied">>)
      [] f.st = "text" -> Ok(f.s)
      [] OTHER -> Ok(<<"<yaml text>">>)

(***************************************************************************)
(* input_spec.py                                                           *)
(***************************************************************************)
SupportedProviders == {S_openai, S_ytl, S_gemini}
AllowedRoles == {S_system, S_developer, S_user, S_assistant}

M_gpt4omini == <<"gpt-4o-mini">>
M_ilmu == <<"ILMU-text">>
M_flashlite == <<"gemini-2.5-flash-lite">>

DefaultMaxTokens == 1024

_read_text_ref(v, files) ==
    IF ~Truthy(v) THEN Ok(JNull)
    ELSE IF v.t = "str" /\ Head(v.s) = "@"
    THEN LET r == read_text(files, Tail(v.s), "_read_text_ref") IN
         IF r.ok THEN Ok(JStr(r.val))
         ELSE Raise("ValueError", "_read_text_ref",
                    <<"Failed to read file reference: ">> \o v.s \o <<" (">> \o r.msg \o <<")">>)
    ELSE Ok(v)

\* _normalize_provider keeping a provider it does not know
_normalize_provider_as_given(v) ==
    LET s0 == or_empty(v) IN
    IF s0.t # "str" THEN no_attr(s0, "strip", "_normalize_provider")
    ELSE Ok(lower(strip(s0.s)))

_normalize_provider(v) ==
    LET s0 == or_empty(v) IN
    IF s0.t # "str" THEN no_attr(s0, "strip", "_normalize_provider")
    ELSE LET s == lower(strip(s0.s)) IN
         Ok(IF s \in SupportedProviders THEN s ELSE S_ytl)

_to_bool(v, default) ==
    IF v.t = "null" THEN default
    ELSE IF v.t = "bool" THEN v.b
    ELSE LET s == lower(strip(py_str(v))) IN
         IF s \in {<<"1">>, S_true, <<"y">>, S_yes} THEN TRUE
         ELSE IF s \in {<<"0">>, S_false, <<"n">>, S_no} THEN FALSE
         ELSE default

IsDigits(s) == s # <<>> /\ \A i \in DOMAIN s : \E d \in DOMAIN Digits : Digits[d] = s[i]

RECURSIVE digits_val(_)
digits_val(s) ==
    IF s = <<>> THEN 0
    ELSE digits_val(SubSeq(s, 1, Len(s) - 1)) * 10
         + ((CHOOSE d \in DOMAIN Digits : Digits[d] = s[Len(s)]) - 1)

\* int(v) of a string: blanks around, an optional sign, decimal digits
int_of_str(s) ==
    LET u == strip(s)
        signed == u # <<>> /\ Head(u) \in {"-", "+"}
        body == IF signed THEN Tail(u) ELSE u
    IN  IF ~IsDigits(body) THEN Raise("ValueError", "int", <<"invalid literal for int()">>)
        ELSE Ok(IF signed /\ Head(u) = "-" THEN 0 - digits_val(body) ELSE digits_val(body))

_to_int(v, default) ==
    CASE v.t = "null" -> default
      [] v.t = "int" -> v.n
      [] v.t = "bool" -> IF v.b THEN 1 ELSE 0
      [] v.t = "str" -> LET r == int_of_str(v.s) IN IF r.ok THEN r.val ELSE default
      [] OTHER -> default

RECURSIVE sanitize_loop(_, _)
\* the for loop of _sanitize_messages over the rest l of the list, out so far
sanitize_loop(l, out) ==
    IF l = <<>> THEN Ok(JList(out))
    ELSE LET m == Head(l) IN
         IF m.t # "obj" THEN sanitize_loop(Tail(l), out)
         ELSE LET r0 == or_empty(dict_get(m, "role")) IN
              IF r0.t # "str" THEN no_attr(r0, "strip", "_sanitize_messages")
              ELSE LET role == lower(strip(r0.s)) IN
                   IF role \notin AllowedRoles THEN sanitize_loop(Tail(l), out)
                   ELSE sanitize_loop(Tail(l),
                            Append(out, [role |-> role,
                                         content |-> dict_get_default(m, "content", JStr(<<>>))]))

_sanitize_messages(messages) ==
    IF messages.t # "list" THEN Ok(JNull) ELSE sanitize_loop(messages.l, <<>>)

\* the default model table of parse_input
default_model(provider) ==
    CASE provider = S_openai -> M_gpt4omini
      [] provider = S_ytl -> M_ilmu
      [] provider = S_gemini -> M_flashlite
      [] OTHER -> M_gpt4omini

\* normalize_model testing for emptiness before it trims: a blank model is kept as ""
normalize_model_late_strip(v, provider) ==
    LET m0 == or_empty(v) IN
    IF m0.t # "str" THEN no_attr(m0, "strip", "parse_input.model")
    ELSE Ok(IF m0.s = <<>> THEN default_model(provider) ELSE strip(m0.s))

\* model = (req.get("model") or "").strip(), defaulted per provider when empty
normalize_model(v, provider) ==
    LET m0 == or_empty(v) IN
    IF m0.t # "str" THEN no_attr(m0, "strip", "parse_input.model")
    ELSE LET m == strip(m0.s) IN Ok(IF m = <<>> THEN default_model(provider) ELSE m)

\* options_in = req.get("options") or {}, replaced by {} unless a dict
options_of(r) ==
    LET o0 == dict_get(r, "options")
        o == IF Truthy(o0) /\ o0.t = "obj" THEN o0 ELSE EmptyObj
    IN  [max_tokens |-> _to_int(dict_get(o, "max_tokens"), DefaultMaxTokens),
         stream |-> _to_bool(dict_get(o, "stream"), FALSE)]

\* rag_id = (req.get("rag_id") or "").strip() or None
rag_id_of(v) ==
    LET s0 == or_empty(v) IN
    IF s0.t # "str" THEN no_attr(s0, "strip", "parse_input.rag_id")
    ELSE LET s == strip(s0.s) IN Ok(IF s = <<>> THEN JNull ELSE JStr(s))

parse_input(r, files) ==
    IF r.t # "obj" THEN no_attr(r, "get", "parse_input")
    ELSE
    LET p == _normalize_provider(dict_get(r, "provider")) IN
    IF ~p.ok THEN p ELSE
    LET m == normalize_model(dict_get(r, "model"), p.val) IN
    IF ~m.ok THEN m ELSE
    LET sp == _read_text_ref(dict_get(r, "system_prompt"), files) IN
    IF ~sp.ok THEN sp ELSE
    LET up == _read_text_ref(dict_get(r, "user_prompt"), files) IN
    IF ~up.ok THEN up ELSE
    LET rid == rag_id_of(dict_get(r, "rag_id")) IN
    IF ~rid.ok THEN rid ELSE
    LET rt == _read_text_ref(dict_get(r, "rag_text"), files) IN
    IF ~rt.ok THEN rt ELSE
    LET ms == _sanitize_messages(dict_get(r, "messages")) IN
    IF ~ms.ok THEN ms ELSE
    Ok([provider |-> p.val,
        model |-> m.val,
        system_prompt |-> sp.val,
        user_prompt |-> up.val,
        rag_id |-> rid.val,
        rag_text |-> rt.val,
        return_json |-> _to_bool(dict_get(r, "return_json"), FALSE),
        strict |-> _to_bool(dict_get(r, "strict"), FALSE),
        options |-> options_of(r),
        messages |-> ms.val])

(***************************************************************************)
(* registry.py                                                             *)
(***************************************************************************)
AllowlistPath == <<"src/configs/allowlist.yaml">>

R_strict_false == <<"strict=false">>
R_missing == <<"strict=true but allowlist missing or empty">>
R_allowed == <<"allowed">>
R_provider(provider) == <<"provider not allowed: ">> \o provider
R_model(provider, model) ==
    <<"model not allowed for provider=">> \o provider \o <<": ">> \o model

\* yaml.safe_load(path.read_text()) or {}, with {} for a missing file and on any exception
_load_yaml(files, path) ==
    LET f == file_at(files, path) IN
    IF ~path_exists(files, path) THEN EmptyObj
    ELSE IF f.st = "yaml" THEN (IF Truthy(f.doc) THEN f.doc ELSE EmptyObj)
    ELSE EmptyObj

\* load_allowlist standing in a default policy when the file gives none
load_allowlist_default(files) ==
    LET doc == _load_yaml(files, AllowlistPath) IN
    IF Truthy(doc) THEN doc
    ELSE JObj((<<"providers">> :> JList(<<JStr(S_openai), JStr(S_ytl), JStr(S_gemini)>>)))

load_allowlist(files) == _load_yaml(files, AllowlistPath)

Hashable(v) == v.t \notin {"list", "obj"}

\* set(v): the elements of a list, the characters of a string, the keys of a dict
py_set(v, where) ==
    CASE v.t = "list" ->
            IF \A i \in DOMAIN v.l : Hashable(v.l[i])
            THEN Ok({v.l[i] : i \in DOMAIN v.l})
            ELSE Raise("TypeError", where, <<"unhashable type">>)
      [] v.t = "str" -> Ok({JStr(<<v.s[i]>>) : i \in DOMAIN v.s})
      [] v.t = "obj" -> Ok({JStr(k) : k \in DOMAIN v.o})
      [] OTHER -> Raise("TypeError", where, <<"'", type_name(v), "' object is not iterable">>)

\* (v or [])
or_list(v) == IF Truthy(v) THEN v ELSE JList(<<>>)

Verdict(ok, reason) == Ok([ok |-> ok, reason |-> reason])

\* model_check reading an empty model list as "no model is allowed"
model_check_empty_blocks(allow, provider, model) ==
    LET m0 == dict_get(allow, "models")
        models == IF Truthy(m0) THEN m0 ELSE EmptyObj
    IN  IF models.t # "obj" THEN no_attr(models, "get", "is_allowed")
        ELSE LET am == py_set(or_list(dict_get_s(models, provider)), "is_allowed") IN
             IF ~am.ok THEN am
             ELSE IF provider \in DOMAIN models.o /\ JStr(model) \notin am.val
                  THEN Verdict(FALSE, R_model(provider, model))
                  ELSE Verdict(TRUE, R_allowed)

\* the part of is_allowed after the providers check
model_check(allow, provider, model) ==
    LET m0 == dict_get(allow, "models")
        models == IF Truthy(m0) THEN m0 ELSE EmptyObj
    IN  IF models.t # "obj" THEN no_attr(models, "get", "is_allowed")
        ELSE LET am == py_set(or_list(dict_get_s(models, provider)), "is_allowed") IN
             IF ~am.ok THEN am
             ELSE IF am.val # {} /\ JStr(model) \notin am.val
                  THEN Verdict(FALSE, R_model(provider, model))
                  ELSE Verdict(TRUE, R_allowed)

is_allowed(files, provider, model, strict) ==
    IF ~strict THEN Verdict(TRUE, R_strict_false)
    ELSE LET allow == load_allowlist(files) IN
         IF ~Truthy(allow) THEN Verdict(FALSE, R_missing)
         ELSE IF allow.t # "obj" THEN no_attr(allow, "get", "is_allowed")
         ELSE LET ps == py_set(or_list(dict_get(allow, "providers")), "is_allowed") IN
              IF ~ps.ok THEN ps
              ELSE IF ps.val # {} /\ JStr(provider) \notin ps.val
                   THEN Verdict(FALSE, R_provider(provider))
                   ELSE model_check(allow, provider, model)

(***************************************************************************)
(* prompt_layers.py                                                        *)
(*                                                                         *)
(* A message of a working list is [role, content, ref]: ref is the index   *)
(* in spec.messages of the dict the entry aliases (list(spec.messages) is  *)
(* a shallow copy), or 0 for a dict built here.  An assignment to          *)
(* msgs[i]["content"] therefore also changes spec.messages[ref].           *)
(***************************************************************************)
SystemDefaultPath == <<"src/prompts/system_default.txt">>
JsonContractPath == <<"src/prompts/system_json_contract.txt">>
D_system == <<"You are a helpful assistant.">>
D_contract == <<"Return a valid JSON object only.">>
T_context == <<"### Reference Context:", "\n">>
T_question == <<"\n", "\n", "### User Question:", "\n">>

Msg(role, content, ref) == [role |-> role, content |-> content, ref |-> ref]

\* os.environ.get(name, "")
env_get(env, name) == IF name \in DOMAIN env THEN env[name] ELSE <<>>

\* (v or "").strip()
strip_or_empty(v, where) ==
    LET s0 == or_empty(v) IN
    IF s0.t # "str" THEN no_attr(s0, "strip", where) ELSE Ok(strip(s0.s))

_load_default_system(files) ==
    LET r == read_text(files, SystemDefaultPath, "_load_default_system") IN
    IF r.ok THEN r.val ELSE D_system

_load_json_contract(files) ==
    LET r == read_text(files, JsonContractPath, "_load_json_contract") IN
    IF r.ok THEN r.val ELSE D_contract

\* spec.return_json and os.environ.get("LLMKIT_APPEND_JSON_CONTRACT", "").strip() == "1"
append_contract(env, sp) ==
    sp.return_json /\ strip(env_get(env, "LLMKIT_APPEND_JSON_CONTRACT")) = <<"1">>

with_contract(files, text) == rstrip(text) \o <<"\n", "\n">> \o strip(_load_json_contract(files))

RECURSIVE first_readable(_, _)
\* the for loop of _resolve_rag_text over the candidate paths
first_readable(files, candidates) ==
    IF candidates = <<>> THEN JNull
    ELSE LET r == read_text(files, Head(candidates), "_resolve_rag_text") IN
         IF path_exists(files, Head(candidates)) /\ r.ok THEN JStr(strip(r.val))
         ELSE first_readable(files, Tail(candidates))

\* _resolve_rag_text looking into the default directory before the override directory
_resolve_rag_text_default_first(files, env, rag_id, rag_text) ==
    LET lit == IF Truthy(rag_text) THEN strip_or_empty(rag_text, "_resolve_rag_text") ELSE Ok(<<>>) IN
    IF ~lit.ok THEN lit
    ELSE IF lit.val # <<>> THEN Ok(JStr(lit.val))
    ELSE IF ~Truthy(rag_id) THEN Ok(JNull)
    ELSE LET rag_dir == strip(env_get(env, "LLMKIT_RAG_DIR"))
             name == rag_id.s \o <<".txt">>
             candidates == <<(<<"src/rag/">> \o name)>>
                           \o (IF rag_dir # <<>> THEN <<rag_dir \o <<"/">> \o name>> ELSE <<>>)
         IN  Ok(first_readable(files, candidates))

_resolve_rag_text(files, env, rag_id, rag_text) ==
    LET lit == IF Truthy(rag_text) THEN strip_or_empty(rag_text, "_resolve_rag_text") ELSE Ok(<<>>) IN
    IF ~lit.ok THEN lit
    ELSE IF lit.val # <<>> THEN Ok(JStr(lit.val))
    ELSE IF ~Truthy(rag_id) THEN Ok(JNull)
    ELSE LET rag_dir == strip(env_get(env, "LLMKIT_RAG_DIR"))
             name == rag_id.s \o <<".txt">>
             candidates == (IF rag_dir # <<>> THEN <<rag_dir \o <<"/">> \o name>> ELSE <<>>)
                           \o <<(<<"src/rag/">> \o name)>>
         IN  Ok(first_readable(files, candidates))

_truncate_rag(env, text) ==
    LET lim == strip(env_get(env, "LLMKIT_RAG_MAX_CHARS"))
        n == int_of_str(lim)
    IN  IF lim = <<>> THEN text
        ELSE IF n.ok /\ n.val > 0 /\ Len(text) > n.val THEN SubSeq(text, 1, n.val)
        ELSE text

\* _build_messages_from_spec taking the trimmed system prompt as it is, default or not
_build_messages_no_default(files, env, sp) ==
    LET st == strip_or_empty(sp.system_prompt, "_build_messages_from_spec") IN
    IF ~st.ok THEN st ELSE
    LET ut == strip_or_empty(sp.user_prompt, "_build_messages_from_spec") IN
    IF ~ut.ok THEN ut ELSE
    Ok(<<Msg(S_system, JStr(st.val), 0), Msg(S_user, JStr(ut.val), 0)>>)

_build_messages_from_spec(files, env, sp) ==
    LET st == strip_or_empty(sp.system_prompt, "_build_messages_from_spec") IN
    IF ~st.ok THEN st ELSE
    LET ut == strip_or_empty(sp.user_prompt, "_build_messages_from_spec") IN
    IF ~ut.ok THEN ut ELSE
    LET system_text == IF st.val # <<>> THEN st.val ELSE _load_default_system(files)
        content == IF append_contract(env, sp) THEN with_contract(files, system_text)
                   ELSE system_text
    IN  Ok(<<Msg(S_system, JStr(content), 0), Msg(S_user, JStr(ut.val), 0)>>)

\* the least / greatest index of a message with the role, 0 when there is none
first_index(msgs, role) ==
    IF \E i \in DOMAIN msgs : msgs[i].role = role
    THEN CHOOSE i \in DOMAIN msgs :
            msgs[i].role = role /\ \A j \in DOMAIN msgs : msgs[j].role = role => i <= j
    ELSE 0

last_index(msgs, role) ==
    IF \E i \in DOMAIN msgs : msgs[i].role = role
    THEN CHOOSE i \in DOMAIN msgs :
            msgs[i].role = role /\ \A j \in DOMAIN msgs : msgs[j].role = role => j <= i
    ELSE 0

\* list.insert(k, x), k the number of entries before x
insert_at(l, k, x) ==
    LET n == IF k > Len(l) THEN Len(l) ELSE k IN
    SubSeq(l, 1, n) \o <<x>> \o SubSeq(l, n + 1, Len(l))

\* list(spec.messages): the same dicts in a new list
shallow_copy(messages) ==
    IF messages = <<>> THEN <<>>
    ELSE [i \in 1..Len(messages) |-> Msg(messages[i].role, messages[i].content, i)]

\* _sanitize_advanced_messages putting a missing system message after the caller's messages
_sanitize_advanced_system_last(files, env, sp) ==
    LET msgs0 == IF Truthy(sp.messages) THEN shallow_copy(sp.messages.l) ELSE <<>> IN
    IF msgs0 = <<>> THEN _build_messages_from_spec(files, env, sp)
    ELSE
    LET found == first_index(msgs0, S_system)
        msgs1 == IF found = 0
                 THEN Append(msgs0, Msg(S_system, JStr(_load_default_system(files)), 0))
                 ELSE msgs0
        sys_idx == IF found = 0 THEN Len(msgs1) ELSE found
        st == IF Truthy(sp.system_prompt)
              THEN strip_or_empty(sp.system_prompt, "_sanitize_advanced_messages")
              ELSE Ok(<<>>)
    IN
    IF ~st.ok THEN st ELSE
    LET msgs2 == IF st.val # <<>> THEN [msgs1 EXCEPT ![sys_idx].content = JStr(st.val)]
                 ELSE msgs1
    IN  IF ~append_contract(env, sp) THEN Ok(msgs2)
        ELSE Ok([msgs2 EXCEPT ![sys_idx].content =
                    JStr(with_contract(files, py_str(or_empty(msgs2[sys_idx].content))))])

_sanitize_advanced_messages(files, env, sp) ==
    LET msgs0 == IF Truthy(sp.messages) THEN shallow_copy(sp.messages.l) ELSE <<>> IN
    IF msgs0 = <<>> THEN _build_messages_from_spec(files, env, sp)
    ELSE
    LET found == first_index(msgs0, S_system)
        msgs1 == IF found = 0
                 THEN insert_at(msgs0, 0, Msg(S_system, JStr(_load_default_system(files)), 0))
                 ELSE msgs0
        sys_idx == IF found = 0 THEN 1 ELSE found
        st == IF Truthy(sp.system_prompt)
              THEN strip_or_empty(sp.system_prompt, "_sanitize_advanced_messages")
              ELSE Ok(<<>>)
    IN
    IF ~st.ok THEN st ELSE
    LET msgs2 == IF st.val # <<>> THEN [msgs1 EXCEPT ![sys_idx].content = JStr(st.val)]
                 ELSE msgs1
        c0 == or_empty(msgs2[sys_idx].content)
    IN
    IF ~append_contract(env, sp) THEN Ok(msgs2)
    ELSE IF c0.t # "str" THEN no_attr(c0, "rstrip", "_sanitize_advanced_messages")
    ELSE Ok([msgs2 EXCEPT ![sys_idx].content = JStr(with_contract(files, c0.s))])

\* apply_rag_injection placing the developer message after the first system message
apply_rag_injection_first_system(env, messages, provider, rag_text0) ==
    LET rag_text == _truncate_rag(env, rag_text0)
        first_sys == first_index(messages, S_system)
        last_user == last_index(messages, S_user)
    IN  IF provider = S_openai
        THEN insert_at(messages, IF first_sys # 0 THEN first_sys ELSE 1,
                       Msg(S_developer, JStr(rag_text), 0))
        ELSE IF last_user # 0
        THEN [messages EXCEPT ![last_user].content =
                JStr(T_context \o rag_text \o T_question
                     \o py_str(or_empty(messages[last_user].content)))]
        ELSE Append(messages, Msg(S_user, JStr(T_context \o rag_text), 0))

\* apply_rag_injection merging the context into the first user message
apply_rag_injection_first_user(env, messages, provider, rag_text0) ==
    LET rag_text == _truncate_rag(env, rag_text0)
        last_sys == last_index(messages, S_system)
        first_user == first_index(messages, S_user)
    IN  IF provider = S_openai
        THEN insert_at(messages, IF last_sys # 0 THEN last_sys ELSE 1,
                       Msg(S_developer, JStr(rag_text), 0))
        ELSE IF first_user # 0
        THEN [messages EXCEPT ![first_user].content =
                JStr(T_context \o rag_text \o T_question
                     \o py_str(or_empty(messages[first_user].content)))]
        ELSE Append(messages, Msg(S_user, JStr(T_context \o rag_text), 0))

apply_rag_injection(env, messages, provider, rag_text0) ==
    LET rag_text == _truncate_rag(env, rag_text0)
        last_sys == last_index(messages, S_system)
        last_user == last_index(messages, S_user)
    IN  IF provider = S_openai
        THEN insert_at(messages, IF last_sys # 0 THEN last_sys ELSE 1,
                       Msg(S_developer, JStr(rag_text), 0))
        ELSE IF last_user # 0
        THEN [messages EXCEPT ![last_user].content =
                JStr(T_context \o rag_text \o T_question
                     \o py_str(or_empty(messages[last_user].content)))]
        ELSE Append(messages, Msg(S_user, JStr(T_context \o rag_text), 0))

\* what the dicts of spec.messages hold once the working list msgs was written
written_back(messages, msgs) ==
    IF messages.t # "list" \/ messages.l = <<>> THEN messages
    ELSE JList([i \in 1..Len(messages.l) |->
                  IF \E k \in DOMAIN msgs : msgs[k].ref = i
                  THEN LET k == CHOOSE k \in DOMAIN msgs : msgs[k].ref = i IN
                       [role |-> msgs[k].role, content |-> msgs[k].content]
                  ELSE messages.l[i]])

\* the message list as the adapter sees it: the dicts, without the aliasing bookkeeping
plain(msgs) ==
    IF msgs = <<>> THEN <<>>
    ELSE [i \in 1..Len(msgs) |-> [role |-> msgs[i].role, content |-> msgs[i].content]]

\* prepare_request: Ok of the PreparedRequest and of spec as the call leaves it
prepare_request(files, env, sp) ==
    LET built == IF Truthy(sp.messages) THEN _sanitize_advanced_messages(files, env, sp)
                 ELSE _build_messages_from_spec(files, env, sp)
    IN
    IF ~built.ok THEN built ELSE
    LET rag == _resolve_rag_text(files, env, sp.rag_id, sp.rag_text) IN
    IF ~rag.ok THEN rag ELSE
    LET msgs == IF Truthy(rag.val)
                THEN apply_rag_injection(env, built.val, sp.provider, rag.val.s)
                ELSE built.val
    IN  Ok([prepared |-> [provider |-> sp.provider,
                          model |-> sp.model,
                          messages |-> plain(msgs),
                          return_json |-> sp.return_json,
                          options |-> sp.options],
            spec |-> [sp EXCEPT !.messages = written_back(sp.messages, msgs)]])

(***************************************************************************)
(* adapters/openai_style.py, adapters/gemini.py                            *)
(*                                                                         *)
(* generate is split where it blocks: *_request is the code up to          *)
(* requests.post (it raises, or yields the request to post), *_response    *)
(* the code after it, applied to what the network gave back.               *)
(***************************************************************************)
MaxBodyExcerpt == 800
AdapterTimeout == 30

OpenAIDefaultEndpoint == <<"https://api.openai.com/v1/chat/completions">>
YtlDefaultEndpoint == <<"https://api.ytlailabs.tech/v1/chat/completions">>
GeminiBase == <<"https://generativelanguage.googleapis.com/v1beta/models/">>

\* what requests.post gave: an exception, or a response with a status and a body;
\* the body is text that parses to the JSON value json, or text that is not JSON
NetError == [kind |-> "neterr"]
JsonResponse(status, json) == [kind |-> "resp", status |-> status, isjson |-> TRUE, json |-> json]
TextResponse(status, text) == [kind |-> "resp", status |-> status, isjson |-> FALSE, text |-> text]

\* r.text[:800]
body_excerpt(o) ==
    LET text == IF o.isjson THEN <<"<json text>">> ELSE o.text IN
    SubSeq(text, 1, IF Len(text) > MaxBodyExcerpt THEN MaxBodyExcerpt ELSE Len(text))

\* the part of generate after requests.post that both adapters share: Ok(r.json()) or a raise
http_result(o, where) ==
    IF o.kind = "neterr"
    THEN Raise("LlmAdapterError", where, <<"request failed: ", "<cause>">>)
    ELSE IF o.status # 200
    THEN Raise("LlmAdapterError", where,
               <<"http ">> \o nat_str(o.status) \o <<": ">> \o body_excerpt(o))
    ELSE IF ~o.isjson THEN Raise("JSONDecodeError", where, <<"Expecting value">>)
    ELSE Ok(o.json)

RECURSIVE lstrip_chars(_, _)
lstrip_chars(s, cs) == IF s # <<>> /\ Head(s) \in cs THEN lstrip_chars(Tail(s), cs) ELSE s

RECURSIVE rstrip_chars(_, _)
rstrip_chars(s, cs) ==
    IF s # <<>> /\ s[Len(s)] \in cs THEN rstrip_chars(SubSeq(s, 1, Len(s) - 1), cs) ELSE s

\* str.strip(chars)
strip_chars(s, cs) == rstrip_chars(lstrip_chars(s, cs), cs)

\* openai_style._read_env
_read_env(env, key) ==
    LET v == strip(env_get(env, key)) IN
    IF v = <<>> THEN Raise("LlmAdapterError", "_read_env", <<"Missing environment variable: ", key>>)
    ELSE Ok(v)

\* _sanitize_api_key trimming blanks only, as openai_style._read_env does
_sanitize_api_key_blanks_only(raw) == strip(raw)

\* gemini._sanitize_api_key
_sanitize_api_key(raw) ==
    strip_chars(strip_chars(strip(raw), {" ", "<dquote>", "<squote>", "<backtick>"}), {"<ldquo>", "<rdquo>", "<lsquo>", "<rsquo>"})

OpenAIStyleAdapter(endpoint, api_key_env) ==
    [kind |-> "openai_style", endpoint |-> endpoint, api_key_env |-> api_key_env,
     timeout |-> AdapterTimeout]

GeminiAdapter ==
    [kind |-> "gemini", endpoint |-> <<>>, api_key_env |-> "GEMINI_API_KEY",
     timeout |-> AdapterTimeout]

\* OpenAIStyleAdapter.generate up to requests.post
openai_request(adapter, env, messages, cfg) ==
    LET k == _read_env(env, adapter.api_key_env) IN
    IF ~k.ok THEN k
    ELSE Ok([url |-> adapter.endpoint,
             auth |-> <<"Bearer ">> \o k.val,
             payload |-> [model |-> cfg.model,
                          messages |-> messages,
                          max_tokens |-> cfg.max_tokens,
                          stream |-> cfg.stream,
                          response_format |-> IF cfg.return_json THEN "json_object" ELSE "none"]])

\* OpenAIStyleAdapter.generate after requests.post
openai_response(o) == http_result(o, "OpenAIStyleAdapter.generate")

\* gemini._to_text (json.dumps of a non-string, by its kind)
_to_text(content) ==
    CASE content.t = "str" -> content.s
      [] content.t = "null" -> <<"null">>
      [] content.t = "int" -> py_str(content)
      [] content.t = "bool" -> IF content.b THEN S_true ELSE S_false
      [] OTHER -> py_str(content)

RECURSIVE join_blank(_)
\* "\n\n".join(parts)
join_blank(parts) ==
    IF parts = <<>> THEN <<>>
    ELSE IF Len(parts) = 1 THEN parts[1]
    ELSE parts[1] \o <<"\n", "\n">> \o join_blank(Tail(parts))

RECURSIVE payload_loop_assistant_as_user(_, _, _)
\* the for loop of _messages_to_payload giving every remaining message the role user
payload_loop_assistant_as_user(messages, system_parts, contents) ==
    IF messages = <<>> THEN [system_parts |-> system_parts, contents |-> contents]
    ELSE LET m == Head(messages)
             role == lower(strip(IF m.role = <<>> THEN S_user ELSE m.role))
             text == _to_text(m.content)
         IN  IF role \in {S_system, S_developer}
             THEN payload_loop_assistant_as_user(Tail(messages),
                      IF strip(text) # <<>> THEN Append(system_parts, strip(text)) ELSE system_parts,
                      contents)
             ELSE payload_loop_assistant_as_user(Tail(messages), system_parts,
                      Append(contents, [role |-> "user", parts |-> <<[text |-> text]>>]))

RECURSIVE payload_loop(_, _, _)
\* the for loop of _messages_to_payload: system_parts and contents so far;
\* a message's role is a string, empty when the key is missing or None
payload_loop(messages, system_parts, contents) ==
    IF messages = <<>> THEN [system_parts |-> system_parts, contents |-> contents]
    ELSE LET m == Head(messages)
             role == lower(strip(IF m.role = <<>> THEN S_user ELSE m.role))
             text == _to_text(m.content)
         IN  IF role \in {S_system, S_developer}
             THEN payload_loop(Tail(messages),
                      IF strip(text) # <<>> THEN Append(system_parts, strip(text)) ELSE system_parts,
                      contents)
             ELSE payload_loop(Tail(messages), system_parts,
                      Append(contents, [role |-> IF role = S_assistant THEN "model" ELSE "user",
                                        parts |-> <<[text |-> text]>>]))

\* gemini._messages_to_payload; hasSystem says whether systemInstruction is set
_messages_to_payload(messages) ==
    LET acc == payload_loop(messages, <<>>, <<>>)
        system_text == strip(join_blank(acc.system_parts))
    IN  [contents |-> acc.contents,
         hasSystem |-> system_text # <<>>,
         systemInstruction |-> system_text]

\* GeminiAdapter.generate up to requests.post
gemini_request(adapter, env, messages, cfg) ==
    LET api_key == _sanitize_api_key(env_get(env, adapter.api_key_env)) IN
    IF api_key = <<>>
    THEN Raise("LlmAdapterError", "GeminiAdapter.generate",
               <<"Missing environment variable: ", adapter.api_key_env>>)
    ELSE Ok([url |-> GeminiBase \o cfg.model \o <<":generateContent">>,
             auth |-> api_key,
             payload |-> [body |-> _messages_to_payload(messages),
                          maxOutputTokens |-> cfg.max_tokens,
                          responseMimeType |-> IF cfg.return_json THEN "application/json" ELSE "none"]])

\* v[0]
py_index0(v, where) ==
    CASE v.t = "list" -> IF v.l = <<>> THEN Raise("IndexError", where, <<"list index out of range">>)
                         ELSE Ok(v.l[1])
      [] v.t = "str" -> IF v.s = <<>> THEN Raise("IndexError", where, <<"string index out of range">>)
                        ELSE Ok(JStr(<<Head(v.s)>>))
      [] v.t = "obj" -> Raise("KeyError", where, <<"0">>)
      [] OTHER -> Raise("TypeError", where, <<"'", type_name(v), "' object is not subscriptable">>)

\* v.get(k, dflt) of any value
py_get(v, k, dflt, where) ==
    IF v.t # "obj" THEN no_attr(v, "get", where) ELSE Ok(dict_get_default(v, k, dflt))

\* (v or 0)
or_zero(v) == IF Truthy(v) THEN v ELSE JInt(0)

\* the generated_text expression of GeminiAdapter.generate
generated_text(data) ==
    LET w == "GeminiAdapter.generate"
        cands == py_get(data, "candidates", JList(<<EmptyObj>>), w)
    IN  IF ~cands.ok THEN cands ELSE
        LET c0 == py_index0(cands.val, w) IN
        IF ~c0.ok THEN c0 ELSE
        LET content == py_get(c0.val, "content", EmptyObj, w) IN
        IF ~content.ok THEN content ELSE
        LET parts == py_get(content.val, "parts", JList(<<EmptyObj>>), w) IN
        IF ~parts.ok THEN parts ELSE
        LET p0 == py_index0(parts.val, w) IN
        IF ~p0.ok THEN p0 ELSE
        py_get(p0.val, "text", JStr(<<>>), w)

\* GeminiAdapter.generate after requests.post
gemini_response(o) ==
    LET w == "GeminiAdapter.generate"
        r == http_result(o, w)
    IN  IF ~r.ok THEN r ELSE
        LET text == generated_text(r.val) IN
        IF ~text.ok THEN text ELSE
        LET u0 == dict_get_default(r.val, "usageMetadata", EmptyObj)
            usage == IF Truthy(u0) THEN u0 ELSE EmptyObj
        IN  IF usage.t # "obj" THEN no_attr(usage, "get", w)
            ELSE Ok(mk_obj(
                [choices |-> JList(<<mk_obj([message |->
                                 mk_obj([role |-> JStr(S_assistant), content |-> text.val])])>>),
                 usage |-> mk_obj(
                    [prompt_tokens |-> or_zero(dict_get_default(usage, "promptTokenCount", JInt(0))),
                     completion_tokens |-> or_zero(dict_get_default(usage, "candidatesTokenCount", JInt(0))),
                     total_tokens |-> or_zero(dict_get_default(usage, "totalTokenCount", JInt(0)))]),
                 gemini_raw |-> r.val]))

\* adapter.generate up to requests.post, by the adapter's class
generate_request(adapter, env, messages, cfg) ==
    IF adapter.kind = "gemini" THEN gemini_request(adapter, env, messages, cfg)
    ELSE openai_request(adapter, env, messages, cfg)

\* adapter.generate after requests.post, by the adapter's class
generate_response(adapter, o) ==
    IF adapter.kind = "gemini" THEN gemini_response(o) ELSE openai_response(o)

(***************************************************************************)
(* coerce.py.  The text of a response is a sequence of atoms; the JSON     *)
(* tokens among them are the punctuation, the number and string literals   *)
(* below and blanks.  json_loads is json.loads on that token language.     *)
(***************************************************************************)
NumAtoms == {"1", "2"}
StrAtoms == {"<a>", "<b>"}

num_of(a) == IF a = "1" THEN 1 ELSE 2

\* a scanner that takes no blank between two tokens
skip_ws_none(t, i) == i

RECURSIVE skip_ws(_, _)
skip_ws(t, i) == IF i <= Len(t) /\ t[i] \in Whitespace THEN skip_ws(t, i + 1) ELSE i

Parsed(v, next) == [ok |-> TRUE, val |-> v, next |-> next]
NoParse == [ok |-> FALSE]

RECURSIVE json_value(_, _)
RECURSIVE json_members(_, _, _)
RECURSIVE json_elements(_, _, _)

\* a JSON value starting at or after position i0
json_value(t, i0) ==
    LET i == skip_ws(t, i0) IN
    IF i > Len(t) THEN NoParse
    ELSE IF t[i] \in NumAtoms THEN Parsed(JInt(num_of(t[i])), i + 1)
    ELSE IF t[i] \in StrAtoms THEN Parsed(JStr(<<t[i]>>), i + 1)
    ELSE IF t[i] = "{"
    THEN LET j == skip_ws(t, i + 1) IN
         IF j <= Len(t) /\ t[j] = "}" THEN Parsed(EmptyObj, j + 1)
         ELSE json_members(t, j, <<>>)
    ELSE IF t[i] = "["
    THEN LET j == skip_ws(t, i + 1) IN
         IF j <= Len(t) /\ t[j] = "]" THEN Parsed(JList(<<>>), j + 1)
         ELSE json_elements(t, j, <<>>)
    ELSE NoParse

\* the members of an object from the key at position i on; acc the members so far
json_members(t, i, acc) ==
    IF i > Len(t) \/ t[i] \notin StrAtoms THEN NoParse
    ELSE LET c == skip_ws(t, i + 1) IN
         IF c > Len(t) \/ t[c] # ":" THEN NoParse
         ELSE LET v == json_value(t, c + 1) IN
              IF ~v.ok THEN NoParse
              ELSE LET e == skip_ws(t, v.next)
                       acc2 == (<<t[i]>> :> v.val) @@ acc
                   IN  IF e > Len(t) THEN NoParse
                       ELSE IF t[e] = "}" THEN Parsed(JObj(acc2), e + 1)
                       ELSE IF t[e] = "," THEN json_members(t, skip_ws(t, e + 1), acc2)
                       ELSE NoParse

\* the elements of an array from position i on; acc the elements so far
json_elements(t, i, acc) ==
    LET v == json_value(t, i) IN
    IF ~v.ok THEN NoParse
    ELSE LET e == skip_ws(t, v.next) IN
         IF e > Len(t) THEN NoParse
         ELSE IF t[e] = "]" THEN Parsed(JList(Append(acc, v.val)), e + 1)
         ELSE IF t[e] = "," THEN json_elements(t, e + 1, Append(acc, v.val))
         ELSE NoParse

\* json.loads(t): Ok(value), or a raise when t is not one JSON value
json_loads(t) ==
    LET v == json_value(t, 1) IN
    IF v.ok /\ skip_ws(t, v.next) > Len(t) THEN Ok(v.val)
    ELSE Raise("JSONDecodeError", "json.loads", <<"Expecting value">>)

\* re.search(r"\{.*\}", text, DOTALL): from the first "{" to the last "}" after it
brace_span(text) ==
    LET opens == {i \in DOMAIN text : text[i] = "{"}
        first == IF opens = {} THEN 0 ELSE CHOOSE i \in opens : \A j \in opens : i <= j
        closes == {i \in DOMAIN text : text[i] = "}" /\ i > first}
        last == IF closes = {} THEN 0 ELSE CHOOSE i \in closes : \A j \in closes : j <= i
    IN  IF first = 0 \/ last = 0 THEN JNull ELSE JStr(SubSeq(text, first, last))

\* _extract_first_json_object without the regular-expression search
_extract_first_json_object_no_search(text) ==
    IF text = <<>> THEN JNull
    ELSE LET s == strip(text) IN
         IF s # <<>> /\ Head(s) = "{" /\ s[Len(s)] = "}" THEN JStr(s) ELSE JNull

_extract_first_json_object(text) ==
    IF text = <<>> THEN JNull
    ELSE LET s == strip(text) IN
         IF s # <<>> /\ Head(s) = "{" /\ s[Len(s)] = "}" THEN JStr(s)
         ELSE LET m == brace_span(text) IN
              IF m.t = "null" THEN JNull ELSE JStr(strip(m.s))

RECURSIVE json_dumps(_)
RECURSIVE dumps_items(_, _)
\* the items of a list or the members of an object, separated by ", "
dumps_items(v, ks) ==
    IF ks = <<>> THEN <<>>
    ELSE (IF v.t = "obj" THEN Head(ks) \o <<":", " ">> \o json_dumps(v.o[Head(ks)])
          ELSE json_dumps(v.l[Head(ks)]))
         \o (IF Len(ks) > 1 THEN <<",", " ">> ELSE <<>>) \o dumps_items(v, Tail(ks))

\* json.dumps(v) of a parsed value, with the default separators
json_dumps(v) ==
    CASE v.t = "int" -> nat_str(v.n)
      [] v.t = "str" -> v.s
      [] v.t = "list" -> <<"[">> \o dumps_items(v, [i \in 1..Len(v.l) |-> i]) \o <<"]">>
      [] v.t = "obj" -> <<"{">> \o dumps_items(v, SelectSeq(<< <<"<a>">>, <<"<b>">> >>,
                                                            LAMBDA k : k \in DOMAIN v.o)) \o <<"}">>

\* coerce_json_object_text: [json, error], each a value or JNull
Coerced(json, error) == [json |-> json, error |-> error]

\* coerce_json_object_text going on to the extraction when the direct parse is no object
coerce_json_object_text_falls_through(text) ==
    IF text.t = "null" THEN Coerced(JNull, JStr(<<"empty response">>))
    ELSE LET s == strip(py_str(text)) IN
    IF s = <<>> THEN Coerced(JNull, JStr(<<"empty response">>))
    ELSE LET direct == json_loads(s) IN
    IF direct.ok /\ direct.val.t = "obj" THEN Coerced(direct.val, JNull)
    ELSE LET extracted == brace_span(s) IN
    IF ~Truthy(extracted) THEN Coerced(JNull, JStr(<<"no JSON object found in text">>))
    ELSE LET again == json_loads(extracted.s) IN
    IF again.ok /\ again.val.t = "obj" THEN Coerced(again.val, JNull)
    ELSE Coerced(JNull, JStr(<<"json parse failed after extraction">>))

coerce_json_object_text(text) ==
    IF text.t = "null" THEN Coerced(JNull, JStr(<<"empty response">>))
    ELSE LET s == strip(py_str(text)) IN
    IF s = <<>> THEN Coerced(JNull, JStr(<<"empty response">>))
    ELSE LET direct == json_loads(s) IN
    IF direct.ok
    THEN (IF direct.val.t = "obj" THEN Coerced(direct.val, JNull)
          ELSE Coerced(JNull, JStr(<<"parsed JSON is not an object">>)))
    ELSE LET extracted == _extract_first_json_object(s) IN
    IF ~Truthy(extracted) THEN Coerced(JNull, JStr(<<"no JSON object found in text">>))
    ELSE LET again == json_loads(extracted.s) IN
    IF again.ok
    THEN (IF again.val.t = "obj" THEN Coerced(again.val, JNull)
          ELSE Coerced(JNull, JStr(<<"extracted JSON is not an object">>)))
    ELSE Coerced(JNull, JStr(<<"json parse failed after extraction: ">> \o again.msg))

(***************************************************************************)
(* client.py: LLMClient                                                    *)
(***************************************************************************)
\* the invocations of run on the one client
Calls == {"a", "b"}

\* the request_id the caller passes
request_id_of(c) == JStr(<<c>>)

\* int((time.time() - t0) * 1000): some duration
Duration == <<"<ms>">>

NoResult == [st |-> "none"]
Returned(envelope) == [st |-> "returned", envelope |-> envelope]
Raised(e) == [st |-> "raised", e |-> e]

\* LLMClient.__init__: the adapter table
client_adapters(env) ==
    LET openai_endpoint == strip(IF env_get(env, "OPENAI_ENDPOINT") # <<>>
                                 THEN env_get(env, "OPENAI_ENDPOINT") ELSE OpenAIDefaultEndpoint)
        ytl_endpoint == strip(IF env_get(env, "YTL_ENDPOINT") # <<>>
                              THEN env_get(env, "YTL_ENDPOINT") ELSE YtlDefaultEndpoint)
    IN  (S_openai :> OpenAIStyleAdapter(openai_endpoint, "OPENAI_API_KEY"))
        @@ (S_ytl :> OpenAIStyleAdapter(ytl_endpoint, "YTL_API_KEY"))
        @@ (S_gemini :> GeminiAdapter)

\* LLMClient._extract_text
_extract_text(raw) ==
    IF raw.t # "obj" THEN <<>> ELSE
    LET choices == dict_get(raw, "choices") IN
    IF ~Truthy(choices) THEN <<>> ELSE
    LET c0 == py_index0(choices, "_extract_text") IN
    IF ~c0.ok THEN <<>>
    ELSE IF c0.val.t # "obj" THEN <<>> ELSE
    LET msg == dict_get(c0.val, "message") IN
    IF ~Truthy(msg) THEN <<>>
    ELSE IF msg.t # "obj" THEN <<>>
    ELSE py_str(or_empty(dict_get(msg, "content")))

\* meta = {"request_id": request_id, "steps": {}, "where": None}
new_meta(rid) == [request_id |-> rid, steps |-> <<>>, where |-> JNull]

\* meta["steps"][k] = v; steps is the dict as a sequence of items in insertion order
set_step(m, k, v) ==
    IF \E i \in DOMAIN m.steps : m.steps[i].k = k
    THEN [m EXCEPT !.steps = [i \in DOMAIN m.steps |->
                                IF m.steps[i].k = k THEN [k |-> k, v |-> v] ELSE m.steps[i]]]
    ELSE [m EXCEPT !.steps = Append(m.steps, [k |-> k, v |-> v])]

step_keys(m) == {m.steps[i].k : i \in DOMAIN m.steps}

Envelope(raw, view, parse_error, m) ==
    [raw |-> raw, view |-> view, parse_error |-> parse_error, meta |-> m]

\* the locals of run that outlive a step, and where the step leaves run
Goto(L, next) ==
    [pc |-> next, spec |-> L.spec, prepared |-> L.prepared, meta |-> L.meta, result |-> NoResult]
Leave(L, res) ==
    [pc |-> "done", spec |-> L.spec, prepared |-> L.prepared,
     meta |-> IF res.st = "returned" THEN res.envelope.meta ELSE L.meta, result |-> res]

\* the except clause catching the adapter and normalization errors only
run_except_narrow(m, e) ==
    LET m1 == [m EXCEPT !.where = IF Truthy(m.where) THEN m.where ELSE JStr(<<"LLMClient.run">>)]
    IN  IF e.exc \in {"LlmAdapterError", "ValueError"}
        THEN Returned(Envelope(JNull, JNull, JStr(e.msg), set_step(m1, "total_ms", Duration)))
        ELSE Raised(e)

\* the except clause returning without the total duration
run_except_no_total(m, e) ==
    LET m1 == [m EXCEPT !.where = IF Truthy(m.where) THEN m.where ELSE JStr(<<"LLMClient.run">>)]
    IN  Returned(Envelope(JNull, JNull, JStr(e.msg), m1))

\* the except clause of run: every Exception becomes an envelope
run_except(m, e) ==
    LET m1 == [m EXCEPT !.where = IF Truthy(m.where) THEN m.where ELSE JStr(<<"LLMClient.run">>)]
    IN  Returned(Envelope(JNull, JNull, JStr(e.msg), set_step(m1, "total_ms", Duration)))

\* step 1: parse input
step_parse(files, L, r) ==
    LET p == parse_input(r, files) IN
    IF ~p.ok THEN Leave(L, run_except(L.meta, p))
    ELSE Goto([L EXCEPT !.spec = p.val, !.meta = set_step(L.meta, "parse_input_ms", Duration)],
              "allow")

\* step 2 recording the gate's reason without returning on a block
step_allow_no_return(files, L) ==
    LET a == is_allowed(files, L.spec.provider, L.spec.model, L.spec.strict) IN
    IF ~a.ok THEN Leave(L, run_except(L.meta, a))
    ELSE Goto([L EXCEPT !.meta = set_step(L.meta, "allowlist_reason", a.val.reason)], "prepare")

\* step 2 returning the block without naming the stage
step_allow_block_no_where(files, L) ==
    LET a == is_allowed(files, L.spec.provider, L.spec.model, L.spec.strict) IN
    IF ~a.ok THEN Leave(L, run_except(L.meta, a))
    ELSE LET m1 == set_step(L.meta, "allowlist_reason", a.val.reason) IN
         IF ~a.val.ok
         THEN Leave(L, Returned(Envelope(JNull, JNull, JStr(a.val.reason),
                        set_step(m1, "total_ms", Duration))))
         ELSE Goto([L EXCEPT !.meta = m1], "prepare")

\* step 2: strict allowlist check
step_allow(files, L) ==
    LET a == is_allowed(files, L.spec.provider, L.spec.model, L.spec.strict) IN
    IF ~a.ok THEN Leave(L, run_except(L.meta, a))
    ELSE LET m1 == set_step(L.meta, "allowlist_reason", a.val.reason) IN
         IF ~a.val.ok
         THEN Leave(L, Returned(Envelope(JNull, JNull, JStr(a.val.reason),
                        set_step([m1 EXCEPT !.where = JStr(<<"allowlist">>)],
                                 "total_ms", Duration))))
         ELSE Goto([L EXCEPT !.meta = m1], "prepare")

\* step 3: prepare prompt layers
step_prepare(files, env, L) ==
    LET p == prepare_request(files, env, L.spec) IN
    IF ~p.ok THEN Leave(L, run_except(L.meta, p))
    ELSE Goto([L EXCEPT !.spec = p.val.spec, !.prepared = p.val.prepared,
                        !.meta = set_step(L.meta, "prepare_ms", Duration)],
              "call")

\* cfg of run
call_cfg(prepared_) ==
    [provider |-> prepared_.provider,
     model |-> prepared_.model,
     max_tokens |-> prepared_.options.max_tokens,
     stream |-> prepared_.options.stream,
     return_json |-> prepared_.return_json]

\* step 4: adapter lookup and adapter.generate up to requests.post;
\* post is the request posted, or JNull
step_call(env, table, L) ==
    IF L.prepared.provider \notin DOMAIN table
    THEN Leave(L, Returned(Envelope(JNull, JNull,
                    JStr(<<"unsupported provider: ">> \o L.prepared.provider),
                    set_step([L.meta EXCEPT !.where = JStr(<<"adapter_select">>)],
                             "total_ms", Duration))))
         @@ [post |-> JNull]
    ELSE LET g == generate_request(table[L.prepared.provider], env,
                                   L.prepared.messages, call_cfg(L.prepared))
         IN  IF ~g.ok THEN Leave(L, run_except(L.meta, g)) @@ [post |-> JNull]
             ELSE Goto(L, "inflight") @@ [post |-> g.val]

\* step 5 treating a failed coercion as a failure of the run
step_respond_coercion_fatal(table, L, o) ==
    LET raw == generate_response(table[L.prepared.provider], o) IN
    IF ~raw.ok THEN Leave(L, run_except(L.meta, raw))
    ELSE LET m1 == set_step(L.meta, "call_ms", Duration)
             text == _extract_text(raw.val)
             co == IF L.prepared.return_json THEN coerce_json_object_text(JStr(text))
                   ELSE Coerced(JNull, JNull)
             view == [t |-> "view",
                      provider |-> L.prepared.provider,
                      model |-> L.prepared.model,
                      text |-> JStr(text),
                      json |-> co.json,
                      return_json |-> L.prepared.return_json]
         IN  IF co.error # JNull
             THEN Leave(L, Returned(Envelope(JNull, JNull, co.error,
                            set_step([m1 EXCEPT !.where = JStr(<<"coerce">>)],
                                     "total_ms", Duration))))
             ELSE Leave(L, Returned(Envelope(raw.val, view, co.error,
                                             set_step(m1, "total_ms", Duration))))

\* step 4 after requests.post gave o, and step 5: build view and optional coerce
step_respond(table, L, o) ==
    LET raw == generate_response(table[L.prepared.provider], o) IN
    IF ~raw.ok THEN Leave(L, run_except(L.meta, raw))
    ELSE LET m1 == set_step(L.meta, "call_ms", Duration)
             text == _extract_text(raw.val)
             co == IF L.prepared.return_json THEN coerce_json_object_text(JStr(text))
                   ELSE Coerced(JNull, JNull)
             view == [t |-> "view",
                      provider |-> L.prepared.provider,
                      model |-> L.prepared.model,
                      text |-> JStr(text),
                      json |-> co.json,
                      return_json |-> L.prepared.return_json]
         IN  Leave(L, Returned(Envelope(raw.val, view, co.error,
                                        set_step(m1, "total_ms", Duration))))

\* run from entry to return with nothing else running; o is what requests.post gives
run_alone(files, env, table, r, rid, o) ==
    LET n1 == step_parse(files, [spec |-> JNull, prepared |-> JNull, meta |-> new_meta(rid)], r) IN
    IF n1.pc = "done" THEN n1.result ELSE
    LET n2 == step_allow(files, n1) IN
    IF n2.pc = "done" THEN n2.result ELSE
    LET n3 == step_prepare(files, env, n2) IN
    IF n3.pc = "done" THEN n3.result ELSE
    LET n4 == step_call(env, table, n3) IN
    IF n4.pc = "done" THEN n4.result ELSE
    step_respond(table, n4, o).result

(***************************************************************************)
(* The inputs: raw requests, files, environments, network outcomes.        *)
(***************************************************************************)
Missing == [t |-> "missing"]

\* the item k: v of a dict, nothing when the key is absent
item(k, v) == IF v = Missing THEN <<>> ELSE (<<k>> :> v)

Txt(a) == JStr(<<a>>)

RECURSIVE blanks(_)
blanks(n) == IF n = 0 THEN <<>> ELSE <<" ">> \o blanks(n - 1)

capitalize(s) == IF s = <<>> THEN s ELSE <<upper_char(Head(s))>> \o Tail(s)

\* a string in the letter cases and with the surrounding blanks the bounds allow
Variants(s) ==
    {blanks(l) \o v \o blanks(r) : l \in 0..MaxPad, r \in 0..MaxPad, v \in {s, upper(s), capitalize(s)}}

NonStrings ==
    {JInt(0), JInt(7), JBool(FALSE), JBool(TRUE), JList(<<>>), JList(<<JStr(S_openai)>>),
     EmptyObj, JObj(item("name", JStr(S_openai)))}

\* the files a prompt field can refer to
PromptFiles == (<<"sys.txt">> :> TextFile(<<"file", " ", "prompt">>))
               @@ (<<"secret.txt">> :> Unreadable)

\* allowlist documents of the documented shape
PolicyOpenAIOnly ==
    JObj(item("providers", JList(<<JStr(S_openai), JStr(S_gemini)>>))
         @@ item("models", JObj((S_openai :> JList(<<JStr(M_gpt4omini)>>)))))

\* the requests passed to run
Requests ==
    { JObj(item("provider", JStr(S_openai)) @@ item("model", JStr(M_gpt4omini))
           @@ item("user_prompt", Txt("hi"))),
      JObj(item("provider", JStr(<<" ">> \o capitalize(S_gemini))) @@ item("user_prompt", Txt("q"))
           @@ item("rag_text", Txt("ctx")) @@ item("strict", JBool(TRUE))),
      JObj(item("provider", JStr(S_openai)) @@ item("model", Txt("other-model"))
           @@ item("strict", JStr(capitalize(S_yes))) @@ item("return_json", JBool(TRUE))),
      JObj(item("provider", JInt(7)) @@ item("user_prompt", Txt("hi"))),
      JList(<<Txt("hi")>>),
      JObj(item("system_prompt", JStr(<<"@", "secret.txt">>)) @@ item("user_prompt", Txt("hi"))),
      JObj(item("provider", JStr(S_ytl)) @@ item("return_json", JBool(TRUE))
           @@ item("system_prompt", JStr(<<"@", "sys.txt">>))
           @@ item("messages", JList(<<JObj(item("role", JStr(S_tool)) @@ item("content", Txt("t"))),
                                       JObj(item("role", JStr(upper(S_user))) @@ item("content", Txt("q")))>>))),
      JObj(item("provider", JStr(S_gemini)) @@ item("system_prompt", JInt(5))),
      JObj(item("provider", JStr(capitalize(S_azure))) @@ item("user_prompt", Txt("hi"))) }

FsChoices ==
    { PromptFiles,
      PromptFiles @@ (AllowlistPath :> YamlFile(PolicyOpenAIOnly)),
      PromptFiles @@ (AllowlistPath :> YamlFile(JList(<<JStr(S_openai)>>))) }

Key == <<"s", "k", "-", "1">>

EnvChoices ==
    { ("OPENAI_API_KEY" :> Key) @@ ("YTL_API_KEY" :> <<" ">> \o Key) @@ ("GEMINI_API_KEY" :> Key),
      ("OPENAI_API_KEY" :> Key) @@ ("YTL_API_KEY" :> <<" ", " ">>)
        @@ ("GEMINI_API_KEY" :> <<"<dquote>", "<dquote>">>),
      ("OPENAI_API_KEY" :> Key) @@ ("GEMINI_API_KEY" :> <<"<dquote>">> \o Key \o <<"<dquote>">>)
        @@ ("LLMKIT_APPEND_JSON_CONTRACT" :> <<"1">>) }

\* response bodies
OpenAIBody(text) ==
    mk_obj([choices |-> JList(<<mk_obj([message |->
                mk_obj([role |-> JStr(S_assistant), content |-> JStr(text)])])>>)])
GeminiBody(text) ==
    mk_obj([candidates |-> JList(<<mk_obj([content |->
                mk_obj([parts |-> JList(<<mk_obj([text |-> JStr(text)])>>)])])>>)])

Outcomes ==
    { NetError,
      TextResponse(500, <<"overloaded">>),
      TextResponse(200, <<"<html>">>),
      JsonResponse(200, OpenAIBody(<<"{", "<a>", ":", "1", "}">>)),
      JsonResponse(200, OpenAIBody(<<"sorry">>)),
      JsonResponse(200, GeminiBody(<<"noise", " ", "{", "<a>", ":", "1", "}">>)),
      JsonResponse(200, mk_obj([candidates |-> JList(<<>>)])),
      JsonResponse(200, JList(<<>>)) }

(***************************************************************************)
(* The state machine: concurrent invocations of run on one LLMClient.      *)
(***************************************************************************)
\* every invocation keeping its locals in one place, as attributes of the client would be
frame_on_client(c) == "a"

\* the frame holding the locals of invocation c
frame(c) == c

locals(c) == [spec |-> spec[frame(c)], prepared |-> prepared[frame(c)], meta |-> meta[frame(c)]]

\* the step of invocation c leaves run's locals and position as n says
commit(c, n) ==
    /\ pc' = [pc EXCEPT ![c] = n.pc]
    /\ spec' = [spec EXCEPT ![frame(c)] = n.spec]
    /\ prepared' = [prepared EXCEPT ![frame(c)] = n.prepared]
    /\ meta' = [meta EXCEPT ![frame(c)] = n.meta]
    /\ result' = [result EXCEPT ![c] = n.result]

Idle ==
    /\ req = [c \in Calls |-> JNull]
    /\ pc = [c \in Calls |-> "idle"]
    /\ spec = [c \in Calls |-> JNull]
    /\ prepared = [c \in Calls |-> JNull]
    /\ meta = [c \in Calls |-> JNull]
    /\ result = [c \in Calls |-> NoResult]
    /\ wire = <<>>

Init ==
    /\ fs \in FsChoices
    /\ environ \in EnvChoices
    /\ adapters = client_adapters(environ)
    /\ Idle
    /\ arg = JNull
    /\ ret = JNull

\* run is entered with request r: meta and t0 are set
Start(c) ==
    /\ pc[c] = "idle"
    /\ \E r \in Requests : req' = [req EXCEPT ![c] = r]
    /\ pc' = [pc EXCEPT ![c] = "parse"]
    /\ meta' = [meta EXCEPT ![frame(c)] = new_meta(request_id_of(c))]
    /\ UNCHANGED <<fs, environ, adapters, spec, prepared, result, wire, arg, ret>>

ParseInput(c) ==
    /\ pc[c] = "parse"
    /\ commit(c, step_parse(fs, locals(c), req[c]))
    /\ UNCHANGED <<fs, environ, adapters, req, wire, arg, ret>>

AllowlistCheck(c) ==
    /\ pc[c] = "allow"
    /\ commit(c, step_allow(fs, locals(c)))
    /\ UNCHANGED <<fs, environ, adapters, req, wire, arg, ret>>

PrepareRequest(c) ==
    /\ pc[c] = "prepare"
    /\ commit(c, step_prepare(fs, environ, locals(c)))
    /\ UNCHANGED <<fs, environ, adapters, req, wire, arg, ret>>

\* adapter lookup and generate up to the POST, which goes on the wire
CallProvider(c) ==
    /\ pc[c] = "call"
    /\ LET n == step_call(environ, adapters, locals(c)) IN
       /\ commit(c, n)
       /\ wire' = IF n.pc = "inflight"
                  THEN Append(wire, [by |-> c, provider |-> locals(c).prepared.provider,
                                     request |-> n.post, response |-> JNull])
                  ELSE wire
    /\ UNCHANGED <<fs, environ, adapters, req, arg, ret>>

\* requests.post returns or raises; run goes on to its return
Respond(c) ==
    /\ pc[c] = "inflight"
    /\ \E o \in Outcomes :
        /\ commit(c, step_respond(adapters, locals(c), o))
        /\ wire' = [i \in DOMAIN wire |->
                      IF wire[i].by = c /\ wire[i].response = JNull
                      THEN [wire[i] EXCEPT !.response = o] ELSE wire[i]]
    /\ UNCHANGED <<fs, environ, adapters, req, arg, ret>>

Next ==
    \E c \in Calls :
        \/ Start(c)
        \/ ParseInput(c)
        \/ AllowlistCheck(c)
        \/ PrepareRequest(c)
        \/ CallProvider(c)
        \/ Respond(c)

Spec == Init /\ [][Next]_vars

(***************************************************************************)
(* parse_input applied to one raw request.                                 *)
(***************************************************************************)
Pending == [t |-> "pending"]

SeqsUpTo(S, n) == UNION {[1..k -> S] : k \in 0..n}

ProviderValues ==
    {Missing, JNull, JStr(<<>>)}
    \cup {JStr(v) : v \in Variants(S_openai) \cup Variants(S_ytl) \cup Variants(S_gemini)
                          \cup Variants(S_azure)}
    \cup NonStrings

ModelValues ==
    {Missing, JNull, JStr(<<>>), JInt(0), JInt(5)}
    \cup {JStr(blanks(n)) : n \in 1..MaxPad}
    \cup {JStr(blanks(l) \o <<"my-model">> \o blanks(r)) : l \in 0..MaxPad, r \in 0..MaxPad}

EntryPool ==
    { JObj(item("role", JStr(S_user)) @@ item("content", Txt("q"))),
      JObj(item("role", JStr(<<" ">> \o capitalize(S_system) \o <<" ">>)) @@ item("content", Txt("s"))
           @@ item("name", Txt("x"))),
      JObj(item("role", JStr(S_tool)) @@ item("content", Txt("t"))),
      JObj(item("role", JStr(S_assistant))),
      JObj(item("role", JStr(S_developer)) @@ item("content", JNull)),
      JObj(item("content", Txt("orphan"))),
      Txt("not-an-object"),
      JObj(item("role", JInt(5)) @@ item("content", Txt("n"))) }

MessagesValues ==
    {JNull, Txt("hi"), EmptyObj} \cup {JList(l) : l \in SeqsUpTo(EntryPool, MaxMsgs)}

InputRequests ==
    {JObj(item("provider", p) @@ item("model", m)) : p \in ProviderValues, m \in ModelValues}
    \cup {JObj(item("provider", JStr(S_openai)) @@ item("messages", ms)) : ms \in MessagesValues}

InitInput ==
    /\ fs = PromptFiles
    /\ environ = <<>>
    /\ adapters = client_adapters(environ)
    /\ Idle
    /\ arg \in InputRequests
    /\ ret = Pending

ApplyParseInput ==
    /\ ret = Pending
    /\ ret' = parse_input(arg, fs)
    /\ UNCHANGED <<fs, environ, adapters, req, pc, spec, prepared, meta, result, wire, arg>>

NextInput == ApplyParseInput

SpecInput == InitInput /\ [][NextInput]_vars

\* the field k of the request the harness holds, Missing when the key is absent
field(k) == IF <<k>> \in DOMAIN arg.o THEN arg.o[<<k>>] ELSE Missing

(***************************************************************************)
(* C8: whatever value the provider field holds (missing, null, empty, a    *)
(* supported name in any letter case with blanks around it, an unsupported *)
(* string, a non-string value), normalization does not fail on it, and the *)
(* normalized provider is the trimmed lower-cased name when that is one of *)
(* openai, ytl, gemini, and ytl otherwise.                                 *)
(***************************************************************************)
C8_Expected(v) ==
    IF v.t = "str" /\ lower(strip(v.s)) \in {S_openai, S_ytl, S_gemini}
    THEN lower(strip(v.s)) ELSE S_ytl

C8_ProviderNeverFails ==
    ret # Pending =>
        /\ ~(~ret.ok /\ ret.at = "_normalize_provider")
        /\ ret.ok => ret.val.provider = C8_Expected(field("provider"))

\* C8 on the values for which the code does what the claim says: every string,
\* null, a missing key and the falsy non-strings
C8_StringOrFalsyProvider ==
    (ret # Pending /\ (field("provider").t \in {"missing", "null", "str"}
                       \/ ~Truthy(field("provider")))) =>
        /\ ~(~ret.ok /\ ret.at = "_normalize_provider")
        /\ ret.ok => ret.val.provider = C8_Expected(field("provider"))

(***************************************************************************)
(* C9: when parse_input yields a spec, a model that is missing, empty or   *)
(* blank has become the fixed default of the resolved provider (openai:    *)
(* gpt-4o-mini, ytl: ILMU-text, gemini: gemini-2.5-flash-lite), and a      *)
(* non-blank model string is kept, trimmed, and never replaced.            *)
(***************************************************************************)
C9_Default(provider) ==
    CASE provider = S_openai -> <<"gpt-4o-mini">>
      [] provider = S_ytl -> <<"ILMU-text">>
      [] provider = S_gemini -> <<"gemini-2.5-flash-lite">>

C9_IsBlank(v) ==
    \/ v.t \in {"missing", "null"}
    \/ v.t = "str" /\ \A i \in DOMAIN v.s : v.s[i] \in Whitespace

C9_ModelDefaulted ==
    (ret # Pending /\ ret.ok) =>
        LET m == field("model") IN
        /\ ret.val.provider \in {S_openai, S_ytl, S_gemini}
        /\ C9_IsBlank(m) => ret.val.model = C9_Default(ret.val.provider)
        /\ (m.t = "str" /\ ~C9_IsBlank(m)) =>
              /\ ret.val.model = strip(m.s)
              /\ ret.val.model # <<>>

\* a blank model sent to gemini came out as gemini's default
C9_Witness ==
    /\ ret # Pending
    /\ ret.ok
    /\ field("model") = JStr(<<" ">>)
    /\ ret.val.provider = S_gemini
    /\ ret.val.model = <<"gemini-2.5-flash-lite">>

(***************************************************************************)
(* C10: for every messages array the normalized messages are exactly the   *)
(* subsequence of the entries that are objects with a role in {system,     *)
(* developer, user, assistant}, in their order, each reduced to role and   *)
(* content; every other entry is absent.  The role is read the way the     *)
(* normalizer compares it (trimmed, lower-cased), and an entry without     *)
(* content has the content "".                                             *)
(***************************************************************************)
C10_Role(e) ==
    IF e.t = "obj" /\ dict_get(e, "role").t = "str"
    THEN lower(strip(dict_get(e, "role").s)) ELSE <<>>

C10_Kept(e) == C10_Role(e) \in {S_system, S_developer, S_user, S_assistant}

RECURSIVE C10_Subsequence(_)
C10_Subsequence(l) ==
    IF l = <<>> THEN <<>>
    ELSE (IF C10_Kept(Head(l))
          THEN <<[role |-> C10_Role(Head(l)),
                  content |-> dict_get_default(Head(l), "content", JStr(<<>>))]>>
          ELSE <<>>) \o C10_Subsequence(Tail(l))

C10_MessagesFiltered ==
    (ret # Pending /\ field("messages").t = "list") =>
        /\ ret.ok
        /\ ret.val.messages = JList(C10_Subsequence(field("messages").l))

\* C10 on the arrays whose entries have no truthy non-string role
C10_StringRoles ==
    (ret # Pending /\ field("messages").t = "list"
       /\ \A i \in DOMAIN field("messages").l :
             LET e == field("messages").l[i] IN
             e.t = "obj" => (dict_get(e, "role").t = "str" \/ ~Truthy(dict_get(e, "role")))) =>
        /\ ret.ok
        /\ ret.val.messages = JList(C10_Subsequence(field("messages").l))

(***************************************************************************)
(* is_allowed applied to one (provider, model, strict) under one policy    *)
(* file.                                                                   *)
(***************************************************************************)
\* what the allowlist file can be when it holds no policy mapping
UnloadablePolicies ==
    { Absent, Unreadable, BadYaml,
      YamlFile(JNull), YamlFile(JStr(<<>>)), YamlFile(JInt(0)), YamlFile(JBool(FALSE)),
      YamlFile(JList(<<>>)),
      YamlFile(JList(<<JStr(S_openai)>>)), YamlFile(JStr(S_openai)), YamlFile(JInt(7)) }

ProviderLists ==
    {Missing, JNull, JList(<<>>), JList(<<JStr(S_openai)>>),
     JList(<<JStr(S_openai), JStr(S_gemini)>>)}

ModelMaps ==
    {Missing, JNull, EmptyObj,
     JObj((S_openai :> JList(<<JStr(M_gpt4omini)>>))),
     JObj((S_openai :> JList(<<>>))),
     JObj((S_openai :> JNull) @@ (S_ytl :> JList(<<JStr(M_ilmu)>>))),
     JObj((S_openai :> JList(<<JStr(M_gpt4omini), JStr(<<"other-model">>)>>))
          @@ (S_gemini :> JList(<<JStr(M_flashlite)>>)))}

\* policy documents of the documented shape: providers a list, models a mapping of lists
ShapedPolicies == {JObj(item("providers", p) @@ item("models", m)) : p \in ProviderLists, m \in ModelMaps}

\* mappings whose members are not of the documented shape
MisshapedPolicies ==
    { JObj(item("providers", JStr(S_openai))),
      JObj(item("providers", JInt(5))),
      JObj(item("models", JList(<<JStr(M_gpt4omini)>>))),
      JObj(item("providers", JList(<<JList(<<JStr(S_openai)>>)>>))) }

PolicyFiles ==
    UnloadablePolicies \cup {YamlFile(d) : d \in ShapedPolicies \cup MisshapedPolicies}

GateArgs ==
    [provider : {S_openai, S_ytl, S_gemini},
     model : {M_gpt4omini, M_flashlite, <<"other-model">>},
     strict : BOOLEAN]

InitGate ==
    /\ fs \in {(AllowlistPath :> f) : f \in PolicyFiles}
    /\ environ = <<>>
    /\ adapters = client_adapters(environ)
    /\ Idle
    /\ arg \in GateArgs
    /\ ret = Pending

ApplyIsAllowed ==
    /\ ret = Pending
    /\ ret' = is_allowed(fs, arg.provider, arg.model, arg.strict)
    /\ UNCHANGED <<fs, environ, adapters, req, pc, spec, prepared, meta, result, wire, arg>>

NextGate == ApplyIsAllowed

SpecGate == InitGate /\ [][NextGate]_vars

policy_file == fs[AllowlistPath]

(***************************************************************************)
(* C3: is_allowed with strict=true and a missing or empty policy document  *)
(* returns ok=false with the reason "strict=true but allowlist missing or  *)
(* empty", for every provider and model.                                   *)
(***************************************************************************)
C3_MissingOrEmpty ==
    policy_file \in {Absent, YamlFile(JNull), YamlFile(EmptyObj)}

C3_StrictBlocksMissing ==
    (ret # Pending /\ arg.strict /\ C3_MissingOrEmpty) =>
        /\ ret.ok
        /\ ret.val.ok = FALSE
        /\ ret.val.reason = <<"strict=true but allowlist missing or empty">>

\* gemini asked for under strict=true with no allowlist file: blocked
C3_Witness ==
    /\ ret # Pending
    /\ arg.strict
    /\ arg.provider = S_gemini
    /\ policy_file = Absent
    /\ ret = Ok([ok |-> FALSE, reason |-> <<"strict=true but allowlist missing or empty">>])

(***************************************************************************)
(* C4: for a non-empty policy mapping of the documented shape is_allowed   *)
(* equals the reference decision: strict=false gives (true,                *)
(* "strict=false") whatever the policy file is; otherwise block if the     *)
(* provider list is non-empty and lacks the provider; otherwise block if   *)
(* the model list of that provider is non-empty and lacks the model;       *)
(* otherwise allow.  An absent or empty providers key or model list        *)
(* restricts nothing.                                                      *)
(***************************************************************************)
C4_List(v) == IF v.t = "list" THEN {v.l[i] : i \in DOMAIN v.l} ELSE {}

C4_ProviderList(doc) ==
    IF <<"providers">> \in DOMAIN doc.o THEN C4_List(doc.o[<<"providers">>]) ELSE {}

C4_ModelList(doc, provider) ==
    IF <<"models">> \in DOMAIN doc.o /\ doc.o[<<"models">>].t = "obj"
       /\ provider \in DOMAIN doc.o[<<"models">>].o
    THEN C4_List(doc.o[<<"models">>].o[provider]) ELSE {}

C4_Reference(doc, provider, model) ==
    IF C4_ProviderList(doc) # {} /\ JStr(provider) \notin C4_ProviderList(doc) THEN FALSE
    ELSE IF C4_ModelList(doc, provider) # {} /\ JStr(model) \notin C4_ModelList(doc, provider)
    THEN FALSE
    ELSE TRUE

C4_ReferenceDecision ==
    ret # Pending =>
        /\ ~arg.strict => ret = Ok([ok |-> TRUE, reason |-> <<"strict=false">>])
        /\ (arg.strict /\ policy_file.st = "yaml" /\ policy_file.doc \in ShapedPolicies
              /\ policy_file.doc # EmptyObj) =>
              /\ ret.ok
              /\ ret.val.ok = C4_Reference(policy_file.doc, arg.provider, arg.model)

\* openai passes the provider list, its model list is non-empty and lacks the model
C4_Witness ==
    /\ ret # Pending
    /\ arg.strict
    /\ arg.provider = S_openai
    /\ arg.model = <<"other-model">>
    /\ policy_file.st = "yaml"
    /\ policy_file.doc \in ShapedPolicies
    /\ dict_get(policy_file.doc, "providers") = JList(<<JStr(S_openai)>>)
    /\ dict_get(policy_file.doc, "models") = JObj((S_openai :> JList(<<JStr(M_gpt4omini)>>)))
    /\ ret.ok
    /\ ret.val.ok = FALSE

(***************************************************************************)
(* C5: policy loading fails closed: with strict=true is_allowed never      *)
(* raises and returns ok=false for every policy file that cannot be loaded *)
(* as a policy mapping (absent, unreadable, YAML syntax error, a document  *)
(* whose top level is not a mapping).                                      *)
(***************************************************************************)
C5_NotAMapping ==
    \/ policy_file \in {Absent, Unreadable, BadYaml}
    \/ policy_file.st = "yaml" /\ policy_file.doc.t # "obj"

C5_FailsClosed ==
    (ret # Pending /\ arg.strict /\ C5_NotAMapping) =>
        /\ ret.ok
        /\ ret.val.ok = FALSE

\* C5 for the files _load_yaml turns into {}: absent, unreadable, syntax error, a falsy document
C5_FalsyDocuments ==
    (ret # Pending /\ arg.strict
       /\ (policy_file \in {Absent, Unreadable, BadYaml}
           \/ (policy_file.st = "yaml" /\ ~Truthy(policy_file.doc)))) =>
        ret = Ok([ok |-> FALSE, reason |-> <<"strict=true but allowlist missing or empty">>])

(***************************************************************************)
(* Claims about run.                                                       *)
(***************************************************************************)
\* the indexes of the requests invocation c has put on the wire
posts(c) == {i \in DOMAIN wire : wire[i].by = c}

(***************************************************************************)
(* C1: run never raises to its caller: for every raw request (also one     *)
(* that is no mapping, an unreadable @file reference, a missing            *)
(* credential, a network failure, a non-200 response, a malformed provider *)
(* response) it returns an envelope with the four keys raw, view,          *)
(* parse_error and meta.                                                   *)
(***************************************************************************)
C1_RunNeverRaises ==
    \A c \in Calls :
        /\ result[c].st # "raised"
        /\ pc[c] = "done" =>
              /\ result[c].st = "returned"
              /\ DOMAIN result[c].envelope = {"raw", "view", "parse_error", "meta"}

\* one invocation was given a list, the other got a 200 response that is not JSON:
\* both returned failure envelopes
C1_Witness ==
    /\ pc["a"] = "done"
    /\ pc["b"] = "done"
    /\ req["a"].t = "list"
    /\ result["a"].st = "returned"
    /\ result["a"].envelope.parse_error = JStr(<<"'", "list", "' object has no attribute '", "get", "'">>)
    /\ \E i \in posts("b") : wire[i].response = TextResponse(200, <<"<html>">>)
    /\ result["b"].st = "returned"
    /\ result["b"].envelope.view = JNull
    /\ result["b"].envelope.meta.where = JStr(<<"LLMClient.run">>)

(***************************************************************************)
(* C2: when the allowlist check returns ok=false, run stops there: it      *)
(* returns an envelope with raw=null, view=null, parse_error equal to the  *)
(* gate's reason and meta.where="allowlist", and neither prompt assembly   *)
(* nor an adapter call (hence no HTTP request) happens in that invocation. *)
(***************************************************************************)
\* invocation c is past its allowlist check, and the check said no
C2_Blocked(c) ==
    /\ pc[c] \in {"prepare", "call", "inflight", "done"}
    /\ spec[c] # JNull
    /\ LET v == is_allowed(fs, spec[c].provider, spec[c].model, spec[c].strict) IN
       v.ok /\ ~v.val.ok

C2_BlockStopsRun ==
    \A c \in Calls :
        C2_Blocked(c) =>
            LET v == is_allowed(fs, spec[c].provider, spec[c].model, spec[c].strict) IN
            /\ pc[c] = "done"
            /\ result[c].st = "returned"
            /\ result[c].envelope.raw = JNull
            /\ result[c].envelope.view = JNull
            /\ result[c].envelope.parse_error = JStr(v.val.reason)
            /\ result[c].envelope.meta.where = JStr(<<"allowlist">>)
            /\ prepared[c] = JNull
            /\ "prepare_ms" \notin step_keys(result[c].envelope.meta)
            /\ posts(c) = {}

\* a strict request for a model the policy does not list was blocked
C2_Witness ==
    /\ C2_Blocked("a")
    /\ pc["a"] = "done"
    /\ result["a"].envelope.parse_error
         = JStr(<<"model not allowed for provider=">> \o S_openai \o <<": ", "other-model">>)
    /\ posts("a") = {}

(***************************************************************************)
(* C6: each invocation of run performs at most one outbound HTTP request,  *)
(* sent only by the adapter of the normalized provider: exactly one when   *)
(* the run reaches the adapter call with a non-blank credential, and zero  *)
(* when normalization fails, the allowlist blocks, or the credential is    *)
(* missing or blank; a failed request is never retried.                    *)
(***************************************************************************)
\* invocation c has been through the adapter call of step 4
C6_ReachedCall(c) ==
    /\ pc[c] \in {"inflight", "done"}
    /\ prepared[c] # JNull

\* the value of the environment variable the adapter of c's provider reads
C6_Credential(c) == env_get(environ, adapters[spec[c].provider].api_key_env)

C6_Blank(raw) == \A i \in DOMAIN raw : raw[i] \in Whitespace

\* where the adapter of the provider posts to
C6_Url(c) ==
    IF spec[c].provider = S_gemini
    THEN <<"https://generativelanguage.googleapis.com/v1beta/models/">> \o spec[c].model
         \o <<":generateContent">>
    ELSE adapters[spec[c].provider].endpoint

C6_SentByOwnAdapter(c) ==
    \A i \in posts(c) : wire[i].provider = spec[c].provider /\ wire[i].request.url = C6_Url(c)

\* the claim as written: one request exactly when the credential is not blank
C6_OnePostIffNonBlank ==
    \A c \in Calls :
        /\ Cardinality(posts(c)) <= 1
        /\ C6_SentByOwnAdapter(c)
        /\ pc[c] \in {"inflight", "done"} =>
              (Cardinality(posts(c)) = 1 <=> (C6_ReachedCall(c) /\ ~C6_Blank(C6_Credential(c))))

\* what is left of the credential once the adapter has cleaned it: blanks trimmed and,
\* by the Gemini adapter, then surrounding spaces and ASCII quotes, then curly quotes
C6_Cleaned(c) ==
    IF spec[c].provider = S_gemini
    THEN strip_chars(strip_chars(strip(C6_Credential(c)),
                                 {" ", "<dquote>", "<squote>", "<backtick>"}),
                     {"<ldquo>", "<rdquo>", "<lsquo>", "<rsquo>"})
    ELSE strip(C6_Credential(c))

\* as amended: one request exactly when the cleaned credential is not empty
C6_OnePostIffUsableCredential ==
    \A c \in Calls :
        /\ Cardinality(posts(c)) <= 1
        /\ C6_SentByOwnAdapter(c)
        /\ pc[c] \in {"inflight", "done"} =>
              (Cardinality(posts(c)) = 1 <=> (C6_ReachedCall(c) /\ C6_Cleaned(c) # <<>>))

\* a returned that posted once and got a network error, and b returned without posting
\* because the Gemini key was nothing but quotes
C6_Witness ==
    /\ pc["a"] = "done"
    /\ Cardinality(posts("a")) = 1
    /\ \E i \in posts("a") : wire[i].response = NetError
    /\ pc["b"] = "done"
    /\ C6_ReachedCall("b")
    /\ spec["b"].provider = S_gemini
    /\ C6_Credential("b") = <<"<dquote>", "<dquote>">>
    /\ posts("b") = {}

(***************************************************************************)
(* C7: concurrent invocations of run on one shared LLMClient do not        *)
(* interfere: under every interleaving each invocation returns the         *)
(* envelope it would return when run alone (durations aside), a step of    *)
(* one invocation leaves the meta (request_id, steps), the spec, the       *)
(* message list and the result of every other invocation as they were, and *)
(* the client's adapter table is not modified after construction.          *)
(***************************************************************************)
\* what requests.post gave invocation c
response_of(c) ==
    IF posts(c) = {} THEN NetError ELSE wire[CHOOSE i \in posts(c) : TRUE].response

C7_SameAsAlone ==
    /\ adapters = client_adapters(environ)
    /\ \A c \in Calls :
          pc[c] = "done" =>
              result[c] = run_alone(fs, environ, client_adapters(environ), req[c],
                                    request_id_of(c), response_of(c))

C7_OthersUntouched ==
    /\ adapters' = adapters
    /\ \A c \in Calls :
          pc'[c] = pc[c] =>
              /\ meta'[c] = meta[c]
              /\ spec'[c] = spec[c]
              /\ prepared'[c] = prepared[c]
              /\ result'[c] = result[c]

C7_NoInterference == [](C7_SameAsAlone) /\ [][C7_OthersUntouched]_vars

\* b posted first and is still waiting while a, started with another request, has
\* already returned its view
C7_Witness ==
    /\ pc["a"] = "done"
    /\ pc["b"] = "inflight"
    /\ Len(wire) = 2
    /\ wire[1].by = "b"
    /\ req["a"] # req["b"]
    /\ result["a"].st = "returned"
    /\ result["a"].envelope.view # JNull
    /\ result["a"].envelope.meta.request_id = JStr(<<"a">>)

(***************************************************************************)
(* prepare_request on its own: an InputSpec as parse_input leaves it, the  *)
(* files and the environment are drawn, and prepare_request is applied.    *)
(***************************************************************************)
Ctx == <<"c", "t", "x">>
OverrideDoc == <<"/rag", "/", "doc", ".txt">>
DefaultDoc == <<"src/rag/", "doc", ".txt">>

\* the prompt files and RAG documents on disk, with the environment read beside them
Worlds ==
    { [fs |-> <<>>, env |-> <<>>],
      [fs |-> (SystemDefaultPath :> TextFile(<<"Be brief.", "\n">>))
              @@ (JsonContractPath :> TextFile(<<"JSON only.", "\n">>))
              @@ (DefaultDoc :> TextFile(<<"d", "e", "f", "\n">>)),
       env |-> ("LLMKIT_APPEND_JSON_CONTRACT" :> <<"1">>)],
      [fs |-> (OverrideDoc :> TextFile(<<"o", "v", "r">>)) @@ (DefaultDoc :> TextFile(<<"d", "e", "f">>)),
       env |-> ("LLMKIT_RAG_DIR" :> <<" ", "/rag">>)],
      [fs |-> (OverrideDoc :> Unreadable) @@ (DefaultDoc :> TextFile(<<"d", "e", "f">>)),
       env |-> ("LLMKIT_RAG_DIR" :> <<"/rag">>) @@ ("LLMKIT_RAG_MAX_CHARS" :> <<"2">>)],
      [fs |-> (DefaultDoc :> TextFile(<<" ", "d", "e", "f">>)),
       env |-> ("LLMKIT_RAG_DIR" :> <<"/rag">>) @@ ("LLMKIT_RAG_MAX_CHARS" :> <<"x">>)
               @@ ("LLMKIT_APPEND_JSON_CONTRACT" :> <<"true">>)],
      [fs |-> (OverrideDoc :> TextFile(<<"\n">>)) @@ (DefaultDoc :> TextFile(<<"d", "e", "f">>)),
       env |-> ("LLMKIT_RAG_DIR" :> <<"/rag">>) @@ ("LLMKIT_APPEND_JSON_CONTRACT" :> <<" ", "1">>)],
      [fs |-> (OverrideDoc :> TextFile(<<"o", "v", "r">>)),
       env |-> ("LLMKIT_RAG_MAX_CHARS" :> <<"0">>)] }

\* an InputSpec with the fields the prompt layers do not read held fixed
InputSpecOf(p, sp, up, rid, rt, rj, ms) ==
    [provider |-> p, model |-> default_model(p), system_prompt |-> sp, user_prompt |-> up,
     rag_id |-> rid, rag_text |-> rt, return_json |-> rj, strict |-> FALSE,
     options |-> [max_tokens |-> DefaultMaxTokens, stream |-> FALSE], messages |-> ms]

PromptValues ==
    {JNull, JStr(<<>>), JStr(<<"hi">>), JStr(<<" ", "hi", "\n">>), JStr(<<" ">>), JInt(5)}

RagTextValues == {JNull, JStr(Ctx), JStr(<<" ">> \o Ctx \o <<"\n">>), JStr(<<" ">>)}

\* entries as _sanitize_messages leaves them: an allowed role and the caller's content
SanitizedPool ==
    { [role |-> S_user, content |-> JStr(<<"q">>)],
      [role |-> S_system, content |-> JStr(<<" ", "caller", " ", "sys", "\n">>)],
      [role |-> S_assistant, content |-> JStr(<<"a">>)],
      [role |-> S_developer, content |-> JStr(<<"d">>)],
      [role |-> S_user, content |-> JNull],
      [role |-> S_user, content |-> JInt(5)] }

PrepareSpecs ==
    {InputSpecOf(p, sp, up, rid, rt, rj, ms) :
        p \in SupportedProviders, sp \in PromptValues, up \in PromptValues,
        rid \in {JNull, JStr(<<"doc">>)}, rt \in RagTextValues, rj \in BOOLEAN,
        ms \in {JNull, JList(<<>>)}}
    \cup
    {InputSpecOf(p, sp, JStr(<<"hi">>), JNull, rt, rj, JList(l)) :
        p \in SupportedProviders, sp \in {JNull, JStr(<<" ", "hi", "\n">>), JStr(<<" ">>)},
        rt \in {JNull, JStr(Ctx)}, rj \in BOOLEAN,
        l \in SeqsUpTo(SanitizedPool, MaxMsgs) \ {<<>>}}

InitPrepare ==
    /\ \E w \in Worlds : fs = w.fs /\ environ = w.env
    /\ adapters = client_adapters(environ)
    /\ Idle
    /\ arg \in PrepareSpecs
    /\ ret = Pending

ApplyPrepareRequest ==
    /\ ret = Pending
    /\ ret' = prepare_request(fs, environ, arg)
    /\ UNCHANGED <<fs, environ, adapters, req, pc, spec, prepared, meta, result, wire, arg>>

NextPrepare == ApplyPrepareRequest

SpecPrepare == InitPrepare /\ [][NextPrepare]_vars

(***************************************************************************)
(* What the prompt-layer claims refer to, stated from the documented       *)
(* behaviour: the context a request resolves to, the text standing in for  *)
(* an absent system prompt, the opt-in JSON contract.                      *)
(***************************************************************************)
IsText(v) == v.t \in {"null", "str"}
NonBlank(v) == v.t = "str" /\ \E i \in DOMAIN v.s : v.s[i] \notin Whitespace
Trimmed(v) == IF v.t = "str" THEN strip(v.s) ELSE <<>>
Readable(path) == path \in DOMAIN fs /\ fs[path].st = "text"

ExpectedDefaultSystem ==
    IF Readable(SystemDefaultPath) THEN fs[SystemDefaultPath].s ELSE <<"You are a helpful assistant.">>

ExpectedContractOn ==
    /\ arg.return_json
    /\ "LLMKIT_APPEND_JSON_CONTRACT" \in DOMAIN environ
    /\ strip(environ["LLMKIT_APPEND_JSON_CONTRACT"]) = <<"1">>

\* the system content with the JSON contract after it when that is switched on
ExpectedWithContract(text) ==
    IF ExpectedContractOn
    THEN rstrip(text) \o <<"\n", "\n">>
         \o strip(IF Readable(JsonContractPath) THEN fs[JsonContractPath].s
                  ELSE <<"Return a valid JSON object only.">>)
    ELSE text

\* the directories searched for {rag_id}.txt, the override first
ExpectedRagDirs ==
    (IF "LLMKIT_RAG_DIR" \in DOMAIN environ /\ strip(environ["LLMKIT_RAG_DIR"]) # <<>>
     THEN <<strip(environ["LLMKIT_RAG_DIR"]) \o <<"/">> >> ELSE <<>>) \o << <<"src/rag/">> >>

\* the context of the request: the literal rag_text, else the first readable document
ExpectedContext ==
    IF NonBlank(arg.rag_text) THEN strip(arg.rag_text.s)
    ELSE IF arg.rag_id.t # "str" THEN <<>>
    ELSE LET docs == [i \in DOMAIN ExpectedRagDirs |-> ExpectedRagDirs[i] \o arg.rag_id.s \o <<".txt">>]
             found == {i \in DOMAIN docs : Readable(docs[i])}
         IN  IF found = {} THEN <<>>
             ELSE strip(fs[docs[CHOOSE i \in found : \A j \in found : i <= j]].s)

(***************************************************************************)
(* C11: in simple mode (no messages, or none left after filtering) and     *)
(* with no RAG context, prepare_request yields exactly the two messages    *)
(* [system, user]: the system content is system_prompt when non-empty and  *)
(* the default system text otherwise, the user content is user_prompt      *)
(* ("" when absent; an empty user prompt is not rejected).                 *)
(***************************************************************************)
C11_SimpleNoRag ==
    /\ ret # Pending
    /\ ~Truthy(arg.messages)
    /\ ExpectedContext = <<>>
    /\ IsText(arg.system_prompt)
    /\ IsText(arg.user_prompt)

\* as written: the prompts are taken over as they are (the JSON contract left aside)
C11_SystemUserVerbatim ==
    (C11_SimpleNoRag /\ ~ExpectedContractOn) =>
        /\ ret.ok
        /\ ret.val.prepared.messages =
             << [role |-> S_system,
                 content |-> JStr(IF Truthy(arg.system_prompt) THEN arg.system_prompt.s
                                  ELSE ExpectedDefaultSystem)],
                [role |-> S_user,
                 content |-> JStr(IF Truthy(arg.user_prompt) THEN arg.user_prompt.s ELSE <<>>)] >>

\* as the code has it: both prompts are trimmed, a blank system prompt counts as absent,
\* and the JSON contract follows the system text when it is switched on
C11_SystemUserTrimmed ==
    C11_SimpleNoRag =>
        /\ ret.ok
        /\ ret.val.prepared.messages =
             << [role |-> S_system,
                 content |-> JStr(ExpectedWithContract(
                                    IF NonBlank(arg.system_prompt) THEN Trimmed(arg.system_prompt)
                                    ELSE ExpectedDefaultSystem))],
                [role |-> S_user, content |-> JStr(Trimmed(arg.user_prompt))] >>

\* a padded user prompt and no system prompt gave [default system text of the file, "hi"]
C11_Witness ==
    /\ C11_SimpleNoRag
    /\ arg.system_prompt = JNull
    /\ arg.user_prompt = JStr(<<" ", "hi", "\n">>)
    /\ ret.ok
    /\ ret.val.prepared.messages =
         << [role |-> S_system, content |-> JStr(<<"Be brief.", "\n">>)],
            [role |-> S_user, content |-> JStr(<<"hi">>)] >>

(***************************************************************************)
(* C12: in advanced mode (filtered messages non-empty) the assembled       *)
(* sequence always contains a system message: when the caller's messages   *)
(* have none, one with the default system text is inserted at position 0;  *)
(* a non-empty system_prompt replaces the content of the first system      *)
(* entry; user_prompt is not used; every other caller message keeps its    *)
(* content and its place in the order.                                     *)
(***************************************************************************)
C12_AdvancedNoRag ==
    /\ ret # Pending
    /\ Truthy(arg.messages)
    /\ ExpectedContext = <<>>
    /\ IsText(arg.system_prompt)

\* the caller's messages, led by a default system message when they have none
C12_Base ==
    IF \E i \in DOMAIN arg.messages.l : arg.messages.l[i].role = S_system
    THEN arg.messages.l
    ELSE <<[role |-> S_system, content |-> JStr(ExpectedDefaultSystem)]>> \o arg.messages.l

C12_FirstSystem ==
    CHOOSE i \in DOMAIN C12_Base :
        /\ C12_Base[i].role = S_system
        /\ \A j \in 1..(i - 1) : C12_Base[j].role # S_system

InjectArgs ==
    [messages : SeqsUpTo(SanitizedPool, MaxMsgs) \ {<<>>},
     provider : SupportedProviders,
     rag_text : {Ctx, <<"c">>}]

InitInject ==
    /\ fs = <<>>
    /\ environ \in {<<>>, ("LLMKIT_RAG_MAX_CHARS" :> <<" ", "2">>), ("LLMKIT_RAG_MAX_CHARS" :> <<"x">>)}
    /\ adapters = client_adapters(environ)
    /\ Idle
    /\ arg \in InjectArgs
    /\ ret = Pending

ApplyRagInjection ==
    /\ ret = Pending
    /\ ret' = Ok(plain(apply_rag_injection(environ, shallow_copy(arg.messages), arg.provider,
                                           arg.rag_text)))
    /\ UNCHANGED <<fs, environ, adapters, req, pc, spec, prepared, meta, result, wire, arg>>

NextInject == ApplyRagInjection

SpecInject == InitInject /\ [][NextInject]_vars

\* the configured cap on the context: a positive one-digit number of characters, else none
ExpectedCap ==
    LET lim == IF "LLMKIT_RAG_MAX_CHARS" \in DOMAIN environ
               THEN strip(environ["LLMKIT_RAG_MAX_CHARS"]) ELSE <<>>
    IN  IF \E n \in 1..9 : lim = <<Digits[n + 1]>>
        THEN CHOOSE n \in 1..9 : lim = <<Digits[n + 1]>> ELSE 0

\* the context as injected: the first ExpectedCap characters when a cap is set
ExpectedCapped(text) ==
    IF ExpectedCap > 0 /\ Len(text) > ExpectedCap
    THEN [i \in 1..ExpectedCap |-> text[i]] ELSE text

(***************************************************************************)
(* C13: for provider openai and a non-empty context, RAG injection adds    *)
(* exactly one message, with role developer and the context (cut to the    *)
(* configured cap) as content, immediately after the last system message,  *)
(* or at index 1 when there is none; every other message keeps its role,   *)
(* content and place in the order.                                         *)
(***************************************************************************)
C13_DeveloperAfterLastSystem ==
    (ret # Pending /\ arg.provider = S_openai) =>
        LET in == arg.messages
            out == ret.val
            sys == {i \in DOMAIN in : in[i].role = S_system}
            k == IF sys = {} THEN 2 ELSE 1 + CHOOSE i \in sys : \A j \in sys : j <= i
        IN  /\ Len(out) = Len(in) + 1
            /\ out[k] = [role |-> S_developer, content |-> JStr(ExpectedCapped(arg.rag_text))]
            /\ \A i \in DOMAIN in : IF i < k THEN out[i] = in[i] ELSE out[i + 1] = in[i]

\* [system, system] got the developer message, cut to two characters, at the end
C13_Witness ==
    /\ ret # Pending
    /\ arg.provider = S_openai
    /\ arg.rag_text = Ctx
    /\ Len(arg.messages) = 2
    /\ \A i \in 1..2 : arg.messages[i].role = S_system
    /\ ret.val = arg.messages \o <<[role |-> S_developer, content |-> JStr(<<"c", "t">>)]>>

(***************************************************************************)
(* C14: for ytl and gemini and a non-empty context, RAG injection adds no  *)
(* developer message: the content of the last user message becomes         *)
(* "### Reference Context:\n{context}\n\n### User Question:\n{original     *)
(* content}" and no message is added or removed; only when there is no     *)
(* user message is one user message holding just the reference-context     *)
(* block appended at the end.  The context is cut to the configured cap.   *)
(***************************************************************************)
C14_Text(v) == IF v.t = "str" THEN v.s ELSE IF v.t = "int" THEN nat_str(v.n) ELSE <<>>

C14_MergedIntoLastUser ==
    (ret # Pending /\ arg.provider # S_openai) =>
        LET in == arg.messages
            out == ret.val
            users == {i \in DOMAIN in : in[i].role = S_user}
            ctx == ExpectedCapped(arg.rag_text)
        IN  /\ \A i \in DOMAIN out : out[i].role = S_developer => i \in DOMAIN in /\ out[i] = in[i]
            /\ IF users = {}
               THEN out = in \o <<[role |-> S_user,
                                   content |-> JStr(<<"### Reference Context:", "\n">> \o ctx)]>>
               ELSE LET last == CHOOSE i \in users : \A j \in users : j <= i IN
                    /\ Len(out) = Len(in)
                    /\ \A i \in DOMAIN in : i # last => out[i] = in[i]
                    /\ out[last].role = S_user
                    /\ out[last].content =
                         JStr(<<"### Reference Context:", "\n">> \o ctx
                              \o <<"\n", "\n", "### User Question:", "\n">>
                              \o C14_Text(in[last].content))

\* of two user messages sent to gemini the second one got the context ahead of its text
C14_Witness ==
    /\ ret # Pending
    /\ arg.provider = S_gemini
    /\ arg.rag_text = Ctx
    /\ environ = <<>>
    /\ arg.messages = <<[role |-> S_user, content |-> JInt(5)],
                        [role |-> S_user, content |-> JStr(<<"q">>)]>>
    /\ ret.val = <<[role |-> S_user, content |-> JInt(5)],
                   [role |-> S_user,
                    content |-> JStr(<<"### Reference Context:", "\n", "c", "t", "x", "\n", "\n",
                                       "### User Question:", "\n", "q">>)]>>

(***************************************************************************)
(* C15: RAG context resolution follows a fixed precedence and never fails: *)
(* a non-blank literal rag_text wins over rag_id; otherwise rag_id is      *)
(* looked up in the override directory first and the default directory     *)
(* second, the first file that exists (and can be read) winning; when      *)
(* rag_id is absent or the file is nowhere, prepare_request injects        *)
(* nothing and raises no error, returning the messages as assembled.       *)
(***************************************************************************)
\* the messages before any injection, by the mode of the request
C15_Assembled ==
    IF Truthy(arg.messages) THEN _sanitize_advanced_messages(fs, environ, arg).val
    ELSE _build_messages_from_spec(fs, environ, arg).val

C15_ContextByPrecedence ==
    (ret # Pending /\ IsText(arg.system_prompt) /\ IsText(arg.user_prompt)) =>
        /\ ret.ok
        /\ ret.val.prepared.messages =
             IF ExpectedContext = <<>> THEN plain(C15_Assembled)
             ELSE plain(apply_rag_injection(environ, C15_Assembled, arg.provider, ExpectedContext))

\* with the document in both directories and a blank rag_text, the override's text went in
C15_Witness ==
    /\ ret # Pending
    /\ arg.provider = S_openai
    /\ arg.rag_id = JStr(<<"doc">>)
    /\ arg.rag_text = JStr(<<" ">>)
    /\ Readable(OverrideDoc)
    /\ Readable(DefaultDoc)
    /\ ret.ok
    /\ \E i \in DOMAIN ret.val.prepared.messages :
          ret.val.prepared.messages[i] = [role |-> S_developer, content |-> JStr(<<"o", "v", "r">>)]

(***************************************************************************)
(* coerce_json_object_text on its own: a text of a known shape is drawn    *)
(* and coerced; a value that came out is serialized and coerced again.     *)
(***************************************************************************)
\* JSON objects as text, each with the value it denotes
ObjectTexts ==
    { [text |-> <<"{", "}">>, val |-> EmptyObj],
      [text |-> <<"{", "<a>", ":", "1", "}">>, val |-> JObj(<<"<a>">> :> JInt(1))],
      [text |-> <<"{", "<a>", ":", " ", "{", "<b>", ":", "2", "}", ",", "\n", "<b>", ":",
                  "[", "1", ",", "<b>", "]", "}">>,
       val |-> JObj((<<"<a>">> :> JObj(<<"<b>">> :> JInt(2)))
                    @@ (<<"<b>">> :> JList(<<JInt(1), JStr(<<"<b>">>)>>)))],
      [text |-> <<"{", "<a>", ":", "1", ",", "<a>", ":", "2", "}">>,
       val |-> JObj(<<"<a>">> :> JInt(2))] }

\* texts that hold no JSON object
ObjectlessTexts ==
    { <<"not json at all">>, <<"[", "1", "]">>, <<"1">>, <<"<a>">>,
      <<"{", "<a>", ":", "1">>, <<"{", "<a>", "}">>, <<"}", " ", "{">> }

Wrap(pre, post) == [pre |-> pre, post |-> post]
Fences == {Wrap(<<"<fence>", "json", "\n">>, <<"\n", "<fence>">>), Wrap(<<"<fence>">>, <<"<fence>">>)}
Noises == {Wrap(<<"noise", " ">>, <<" ", "trailing">>), Wrap(<<"Sure:", "\n">>, <<>>),
           Wrap(<<>>, <<"\n", "done">>)}
\* surroundings that are JSON themselves, or that bring braces of their own
Entangled == {Wrap(<<"[">>, <<"]">>), Wrap(<<"[", "1", ",", " ">>, <<"]">>),
              Wrap(<<"see", " ", "{", "x", "}", " ">>, <<>>), Wrap(<<>>, <<" ", "}", " ", "end">>)}

Shaped(shape, w, o) == [text |-> JStr(w.pre \o o.text \o w.post), shape |-> shape, obj |-> o.val]

CoerceArgs ==
    {[text |-> JNull, shape |-> "blank", obj |-> JNull]}
    \cup {[text |-> JStr(blanks(n)), shape |-> "blank", obj |-> JNull] : n \in 0..(MaxPad + 1)}
    \cup {Shaped("exact", Wrap(blanks(l), blanks(r)), o) : l \in 0..MaxPad, r \in 0..MaxPad, o \in ObjectTexts}
    \cup {Shaped("fenced", w, o) : w \in Fences, o \in ObjectTexts}
    \cup {Shaped("noisy", w, o) : w \in Noises, o \in ObjectTexts}
    \cup {Shaped("objectless", w, [text |-> t, val |-> JNull]) :
             w \in Noises \cup {Wrap(<<>>, <<>>)}, t \in ObjectlessTexts}
    \cup {Shaped("entangled", w, o) : w \in Entangled, o \in ObjectTexts}

InitCoerce ==
    /\ fs = <<>>
    /\ environ = <<>>
    /\ adapters = client_adapters(environ)
    /\ Idle
    /\ arg \in CoerceArgs
    /\ ret = Pending

ApplyCoerce ==
    /\ ret = Pending
    /\ ret' = coerce_json_object_text(arg.text)
    /\ UNCHANGED <<fs, environ, adapters, req, pc, spec, prepared, meta, result, wire, arg>>

\* the object that came out is serialized, to be coerced in its turn
Reserialize ==
    /\ ret # Pending
    /\ ret.json # JNull
    /\ arg.shape # "dumped"
    /\ arg' = [text |-> JStr(json_dumps(ret.json)), shape |-> "dumped", obj |-> ret.json]
    /\ ret' = Pending
    /\ UNCHANGED <<fs, environ, adapters, req, pc, spec, prepared, meta, result, wire>>

NextCoerce == ApplyCoerce \/ Reserialize

SpecCoerce == InitCoerce /\ [][NextCoerce]_vars

(***************************************************************************)
(* C16: coercion outcome by the shape of the text: a text that is exactly  *)
(* a JSON object gives that object and no error; a JSON object inside a    *)
(* triple-backtick fence gives the same object; a JSON object surrounded   *)
(* by non-JSON noise gives it too, by the slice from the first "{" to the  *)
(* last "}"; a null or blank text fails with the error "empty response";   *)
(* a text with no JSON object to extract gives a null value and an error.  *)
(***************************************************************************)
C16_OutcomeByShape ==
    ret # Pending =>
        /\ arg.shape \in {"exact", "fenced", "noisy"} => ret.json = arg.obj /\ ret.error = JNull
        /\ arg.shape = "blank" => ret.json = JNull /\ ret.error = JStr(<<"empty response">>)
        /\ arg.shape = "objectless" => ret.json = JNull /\ ret.error # JNull

\* a nested object between noise came out whole
C16_Witness ==
    /\ ret # Pending
    /\ arg.shape = "noisy"
    /\ Head(arg.text.s) = "noise"
    /\ <<"<b>">> \in DOMAIN arg.obj.o
    /\ ret.json = arg.obj
    /\ ret.json.o[<<"<b>">>] = JList(<<JInt(1), JStr(<<"<b>">>)>>)

(***************************************************************************)
(* C17: coercion tries its attempts in order and the first success wins:   *)
(* the direct parse of the trimmed text, then the parse after stripping a  *)
(* triple-backtick fence, then the parse of the slice from the first "{"   *)
(* to the last "}".  It returns a null value only when none of them gives  *)
(* a JSON object; an attempt that parses to an array or a primitive is a   *)
(* failed attempt, not a final answer.                                     *)
(***************************************************************************)
C17_Text == IF arg.text.t = "str" THEN strip(arg.text.s) ELSE <<>>

\* the text without its opening fence (and language tag) and its closing fence
C17_Unfenced ==
    LET s == C17_Text IN
    IF Len(s) >= 2 /\ Head(s) = "<fence>" /\ s[Len(s)] = "<fence>"
    THEN LET inner == SubSeq(s, 2, Len(s) - 1) IN
         strip(IF inner # <<>> /\ Head(inner) = "json" THEN Tail(inner) ELSE inner)
    ELSE <<>>

\* the text from its first "{" to its last "}"
C17_Slice ==
    LET s == C17_Text
        lb == {i \in DOMAIN s : s[i] = "{"}
        rb == {i \in DOMAIN s : s[i] = "}"}
    IN  IF lb = {} \/ rb = {} THEN <<>>
        ELSE LET i == CHOOSE i \in lb : \A k \in lb : i <= k
                 j == CHOOSE j \in rb : \A k \in rb : k <= j
             IN  IF i < j THEN SubSeq(s, i, j) ELSE <<>>

C17_IsObject(t) == json_loads(t).ok /\ json_loads(t).val.t = "obj"

\* as written: the first of the three attempts that gives an object is the answer
C17_FirstObjectWins ==
    (ret # Pending /\ C17_Text # <<>>) =>
        LET attempts == <<C17_Text, C17_Unfenced, C17_Slice>>
            good == {i \in 1..3 : C17_IsObject(attempts[i])}
        IN  IF good = {} THEN ret.json = JNull /\ ret.error # JNull
            ELSE /\ ret.json = json_loads(attempts[CHOOSE i \in good : \A k \in good : i <= k]).val
                 /\ ret.error = JNull

\* as the code has it: a text that is JSON as a whole is decided by the direct parse,
\* object or not; only a text that is not JSON is sliced
C17_DirectParseDecides ==
    (ret # Pending /\ C17_Text # <<>>) =>
        IF json_loads(C17_Text).ok
        THEN IF C17_IsObject(C17_Text)
             THEN ret.json = json_loads(C17_Text).val /\ ret.error = JNull
             ELSE ret.json = JNull /\ ret.error = JStr(<<"parsed JSON is not an object">>)
        ELSE IF C17_IsObject(C17_Slice)
             THEN ret.json = json_loads(C17_Slice).val /\ ret.error = JNull
             ELSE ret.json = JNull /\ ret.error # JNull

\* an array holding an object was refused although its slice is that object
C17_Witness ==
    /\ ret # Pending
    /\ arg.shape = "entangled"
    /\ Head(C17_Text) = "["
    /\ C17_IsObject(C17_Slice)
    /\ ret.json = JNull
    /\ ret.error = JStr(<<"parsed JSON is not an object">>)

(***************************************************************************)
(* C18: coercion is idempotent on its own output: when coercion succeeds   *)
(* on a text with the object v, coercing the plain JSON serialization of v *)
(* succeeds again, with an object equal to v and no error.                 *)
(***************************************************************************)
C18_Idempotent ==
    (ret # Pending /\ arg.shape = "dumped") =>
        /\ ret.json = arg.obj
        /\ ret.error = JNull

\* the nested object, serialized with ", " and ": " between its tokens, came out again
C18_Witness ==
    /\ ret # Pending
    /\ arg.shape = "dumped"
    /\ arg.text = JStr(<<"{", "<a>", ":", " ", "{", "<b>", ":", " ", "2", "}", ",", " ",
                         "<b>", ":", " ", "[", "1", ",", " ", "<b>", "]", "}">>)
    /\ ret.json = arg.obj
    /\ ret.json.o[<<"<a>">>] = JObj(<<"<b>">> :> JInt(2))

(***************************************************************************)
(* C19: a coercion failure is never fatal and never discards the response. *)
(* Whenever the adapter call of a finished run returned, the envelope      *)
(* carries raw = the adapter's response and view.text = the extracted      *)
(* text, with meta.where null; parse_error is non-null exactly when        *)
(* return_json was requested and coercion failed, and view.json is null    *)
(* then; when return_json was not requested, view.json and parse_error are *)
(* both null.                                                              *)
(***************************************************************************)
\* what requests.post gave invocation c
C19_Outcome(c) ==
    LET i == CHOOSE i \in DOMAIN wire : wire[i].by = c IN wire[i].response

\* the adapter call of invocation c
C19_Generated(c) ==
    LET i == CHOOSE i \in DOMAIN wire : wire[i].by = c
    IN  generate_response(adapters[wire[i].provider], wire[i].response)

\* invocation c is over and its adapter call returned
C19_AdapterReturned(c) ==
    /\ pc[c] = "done"
    /\ \E i \in DOMAIN wire : wire[i].by = c /\ wire[i].response # JNull
    /\ C19_Generated(c).ok

\* the content of the first choice's message, as text; empty when there is none
C19_ExtractedText(raw) ==
    LET firstMessage ==
            IF raw.t = "obj" /\ dict_get(raw, "choices").t = "list"
               /\ dict_get(raw, "choices").l # <<>>
               /\ dict_get(raw, "choices").l[1].t = "obj"
            THEN dict_get(dict_get(raw, "choices").l[1], "message")
            ELSE JNull
    IN  IF firstMessage.t = "obj" /\ Truthy(dict_get(firstMessage, "content"))
        THEN py_str(dict_get(firstMessage, "content"))
        ELSE <<>>

C19_ReturnJsonRequested(c) ==
    dict_get_default(req[c], "return_json", JBool(FALSE)) = JBool(TRUE)

C19_ResponseSurvivesCoercion ==
    \A c \in Calls :
        C19_AdapterReturned(c) =>
            LET raw == C19_Generated(c).val
                text == JStr(C19_ExtractedText(raw))
                coerced == coerce_json_object_text(text)
            IN  /\ result[c].st = "returned"
                /\ result[c].envelope.raw = raw
                /\ result[c].envelope.view # JNull
                /\ result[c].envelope.view.text = text
                /\ result[c].envelope.meta.where = JNull
                /\ (result[c].envelope.parse_error # JNull)
                       <=> (C19_ReturnJsonRequested(c) /\ coerced.json = JNull)
                /\ result[c].envelope.view.json =
                       IF C19_ReturnJsonRequested(c) THEN coerced.json ELSE JNull
                /\ (result[c].envelope.parse_error # JNull)
                       => result[c].envelope.view.json = JNull

\* JSON was requested, the model answered "sorry": the answer is kept beside the error
C19_Witness ==
    \E c \in Calls :
        /\ C19_AdapterReturned(c)
        /\ C19_ReturnJsonRequested(c)
        /\ C19_Outcome(c) = JsonResponse(200, OpenAIBody(<<"sorry">>))
        /\ result[c].envelope.raw = OpenAIBody(<<"sorry">>)
        /\ result[c].envelope.view.text = JStr(<<"sorry">>)
        /\ result[c].envelope.view.json = JNull
        /\ result[c].envelope.parse_error # JNull
        /\ result[c].envelope.meta.where = JNull

(***************************************************************************)
(* C20: a normalization error, such as a request field that is an @file    *)
(* reference to an unreadable file, is surfaced by run as a failure        *)
(* envelope whose meta.where is "input", with raw = null, view = null and  *)
(* parse_error naming the offending file reference.                        *)
(***************************************************************************)
\* the @file reference of the request of invocation c that cannot be read, if any
C20_UnreadableRef(c) ==
    IF req[c].t = "obj"
    THEN {v \in {dict_get(req[c], "system_prompt"), dict_get(req[c], "user_prompt")} :
             /\ v.t = "str" /\ v.s # <<>> /\ Head(v.s) = "@"
             /\ file_at(fs, Tail(v.s)).st \in {"absent", "unreadable"}}
    ELSE {}

\* the text msg holds the text ref
C20_Names(msg, ref) ==
    \E i \in 1..Len(msg) : i + Len(ref) - 1 <= Len(msg) /\ SubSeq(msg, i, i + Len(ref) - 1) = ref

C20_NormalizationErrorAtInput ==
    \A c \in Calls :
        (pc[c] = "done" /\ C20_UnreadableRef(c) # {}) =>
            /\ result[c].st = "returned"
            /\ result[c].envelope.raw = JNull
            /\ result[c].envelope.view = JNull
            /\ result[c].envelope.meta.where = JStr(<<"input">>)
            /\ \E v \in C20_UnreadableRef(c) :
                   C20_Names(result[c].envelope.parse_error.s, v.s)

(***************************************************************************)
(* _messages_to_payload applied to one message sequence.                   *)
(***************************************************************************)
\* roles as callers write them: padded, capitalized, outside the four, missing
PayloadRoles ==
    {S_system, <<" ">> \o capitalize(S_developer), S_user, upper(S_assistant), S_tool, <<>>}

\* contents: plain, padded, blank, empty, and two that are not strings
PayloadContents ==
    {Txt("a"), JStr(<<" ", "b", "\n">>), JStr(<<" ">>), JStr(<<>>), JInt(5), JNull}

PayloadMessages == {[role |-> r, content |-> c] : r \in PayloadRoles, c \in PayloadContents}

InitPayload ==
    /\ fs = <<>>
    /\ environ = <<>>
    /\ adapters = <<>>
    /\ Idle
    /\ arg \in SeqsUpTo(PayloadMessages, MaxMsgs)
    /\ ret = Pending

ApplyMessagesToPayload ==
    /\ ret = Pending
    /\ ret' = _messages_to_payload(arg)
    /\ UNCHANGED <<fs, environ, adapters, req, pc, spec, prepared, meta, result, wire, arg>>

NextPayload == ApplyMessagesToPayload

SpecPayload == InitPayload /\ [][NextPayload]_vars

\* the role of a message as the adapter reads it
C21_Role(m) == IF m.role = <<>> THEN S_user ELSE lower(strip(m.role))

\* the content of a message as text
C21_Text(m) ==
    CASE m.content.t = "str" -> m.content.s
      [] m.content = JNull -> <<"null">>
      [] OTHER -> py_str(m.content)

C21_IsBlank(s) == \A i \in DOMAIN s : s[i] \in Whitespace

\* the system and developer messages with something to say, and the others
C21_Instructions ==
    SelectSeq(arg, LAMBDA m : C21_Role(m) \in {S_system, S_developer} /\ ~C21_IsBlank(C21_Text(m)))
C21_Remaining ==
    SelectSeq(arg, LAMBDA m : C21_Role(m) \notin {S_system, S_developer})

\* the texts of l joined by a blank line
C21_Joined(l) ==
    LET join[k \in 0..Len(l)] ==
            IF k = 0 THEN <<>>
            ELSE IF k = 1 THEN l[1]
            ELSE join[k - 1] \o <<"\n", "\n">> \o l[k]
    IN  join[Len(l)]

C21_ContentsInOrder ==
    /\ Len(ret.contents) = Len(C21_Remaining)
    /\ \A k \in DOMAIN ret.contents :
           ret.contents[k] =
               [role |-> IF C21_Role(C21_Remaining[k]) = S_assistant THEN "model" ELSE "user",
                parts |-> <<[text |-> C21_Text(C21_Remaining[k])]>>]

\* C21 as stated: the systemInstruction text is the non-blank contents of the system and
\* developer messages, in order, joined by a blank line, and the block is omitted when
\* there are none; contents has one {role, parts:[{text}]} entry per remaining message,
\* in order, with role model for assistant and user for every other role
C21_InstructionVerbatim ==
    ret # Pending =>
        /\ ret.hasSystem <=> C21_Instructions # <<>>
        /\ ret.hasSystem =>
               ret.systemInstruction =
                   C21_Joined([k \in DOMAIN C21_Instructions |-> C21_Text(C21_Instructions[k])])
        /\ C21_ContentsInOrder

\* C21, amended: the systemInstruction text is the trimmed non-blank contents of the
\* system and developer messages, in order, joined by a blank line, and the block is
\* omitted when there are none; contents is as stated, each text untrimmed
C21_InstructionTrimmed ==
    ret # Pending =>
        /\ ret.hasSystem <=> C21_Instructions # <<>>
        /\ ret.hasSystem =>
               ret.systemInstruction =
                   C21_Joined([k \in DOMAIN C21_Instructions |->
                                  strip(C21_Text(C21_Instructions[k]))])
        /\ C21_ContentsInOrder

\* a padded developer message after a system message, then an assistant turn
C21_Witness ==
    /\ ret # Pending
    /\ Len(arg) = 2
    /\ arg[1] = [role |-> S_system, content |-> Txt("a")]
    /\ arg[2] = [role |-> <<" ">> \o capitalize(S_developer), content |-> JStr(<<" ", "b", "\n">>)]
    /\ ret.hasSystem
    /\ ret.systemInstruction = <<"a", "\n", "\n", "b">>
    /\ ret.contents = <<>>

(***************************************************************************)
(* C22: on every HTTP-200 Gemini response the adapter returns the          *)
(* OpenAI-style shape {choices:[{message:{role:"assistant", content}}],    *)
(* usage:{prompt_tokens, completion_tokens, total_tokens}} where content   *)
(* is candidates[0].content.parts[0].text, or the empty string if any step *)
(* of that path is absent (no candidates key, an empty candidates list, no *)
(* content, an empty parts list, no text), and each token count is zero    *)
(* when it is absent; the adapter does not raise for such a response.      *)
(***************************************************************************)
\* the first element of the list under key k of d, or JNull when a step is absent
C22_First(d, k) ==
    IF d.t = "obj" /\ dict_get(d, k).t = "list" /\ dict_get(d, k).l # <<>>
    THEN dict_get(d, k).l[1] ELSE JNull

\* candidates[0].content.parts[0].text, or the empty string
C22_Content(data) ==
    LET candidate == C22_First(data, "candidates")
        content == IF candidate.t = "obj" THEN dict_get(candidate, "content") ELSE JNull
        part == C22_First(content, "parts")
        text == IF part.t = "obj" THEN dict_get(part, "text") ELSE JNull
    IN  IF text = JNull THEN JStr(<<>>) ELSE text

\* a token count of the usage-metadata block, or zero
C22_Count(data, k) ==
    LET usage == dict_get(data, "usageMetadata") IN
    IF usage.t = "obj" /\ dict_get(usage, k).t = "int" THEN dict_get(usage, k) ELSE JInt(0)

\* the Gemini exchanges of finished runs that ended in a 200 with a JSON object
C22_Answered ==
    {i \in DOMAIN wire :
        /\ pc[wire[i].by] = "done"
        /\ wire[i].provider = S_gemini
        /\ wire[i].response # JNull
        /\ wire[i].response.kind = "resp"
        /\ wire[i].response.status = 200
        /\ wire[i].response.isjson
        /\ wire[i].response.json.t = "obj"}

C22_GeminiShape ==
    \A i \in C22_Answered :
        LET data == wire[i].response.json
            got == gemini_response(wire[i].response)
        IN  /\ got.ok
            /\ result[wire[i].by].st = "returned"
            /\ result[wire[i].by].envelope.raw = got.val
            /\ dict_get(got.val, "choices") =
                   JList(<<mk_obj([message |-> mk_obj([role |-> JStr(S_assistant),
                                                       content |-> C22_Content(data)])])>>)
            /\ dict_get(got.val, "usage") =
                   mk_obj([prompt_tokens |-> C22_Count(data, "promptTokenCount"),
                           completion_tokens |-> C22_Count(data, "candidatesTokenCount"),
                           total_tokens |-> C22_Count(data, "totalTokenCount")])

(***************************************************************************)
(* lambda_function.py.  The body of the answer is a JSON text, given by    *)
(* the members of its top-level object in order, each with the value that  *)
(* was serialized.                                                         *)
(***************************************************************************)
\* a value json.dumps has no encoding for
Opaque == [t |-> "object"]

\* the Lambda context objects: one without aws_request_id, and with an id
NoContext == [has |-> FALSE]
Context(id) == [has |-> TRUE, aws_request_id |-> id]

\* getattr(context, "aws_request_id", None)
request_id_from(context) == IF context.has THEN context.aws_request_id ELSE JNull

_safe_json_loads(s) ==
    IF s.t = "obj" THEN s
    ELSE IF s.t # "str" THEN EmptyObj
    ELSE IF strip(s.s) = <<>> THEN EmptyObj
    ELSE LET v == json_loads(strip(s.s)) IN
         IF v.ok THEN v.val ELSE EmptyObj

JsonText(members) == [t |-> "json_text", members |-> members]

\* json.dumps(result, ensure_ascii=False) of an envelope
dumps_envelope(e) ==
    IF e.meta.request_id = Opaque
    THEN Raise("TypeError", "json.dumps", <<"Object of type object is not JSON serializable">>)
    ELSE Ok(JsonText(<<[k |-> "raw", v |-> e.raw],
                       [k |-> "view", v |-> e.view],
                       [k |-> "parse_error", v |-> e.parse_error],
                       [k |-> "meta", v |-> e.meta]>>))

\* the except clause of lambda_handler answering with a server error
handler_except_500(e) ==
    [statusCode |-> 500,
     body |-> JsonText(<<[k |-> "raw", v |-> JNull],
                         [k |-> "view", v |-> JNull],
                         [k |-> "parse_error", v |-> JStr(e.msg)],
                         [k |-> "meta", v |-> [where |-> JStr(<<"lambda_handler">>)]]>>)]

\* the except clause of lambda_handler
handler_except(e) ==
    [statusCode |-> 200,
     body |-> JsonText(<<[k |-> "raw", v |-> JNull],
                         [k |-> "view", v |-> JNull],
                         [k |-> "parse_error", v |-> JStr(e.msg)],
                         [k |-> "meta", v |-> [where |-> JStr(<<"lambda_handler">>)]]>>)]

\* lambda_handler up to _client.run: Ok of the request to run, or the raise of event.get
handler_request(event) ==
    IF event.t # "obj" THEN no_attr(event, "get", "lambda_handler")
    ELSE Ok(_safe_json_loads(dict_get_default(event, "body", event)))

\* lambda_handler from the return of _client.run on
handler_answer(res) ==
    IF res.st = "raised" THEN handler_except(res.e)
    ELSE LET dumped == dumps_envelope(res.envelope) IN
         IF ~dumped.ok THEN handler_except(dumped)
         ELSE [statusCode |-> 200, body |-> dumped.val]

(***************************************************************************)
(* lambda_handler applied to one event: it enters, the module's client     *)
(* runs the request as invocation "a", and the handler answers.            *)
(***************************************************************************)
\* the body texts: an object, a list, malformed JSON, blanks
BodyTexts ==
    { <<" ", "{", "<a>", ":", "1", "}">>, <<"[", "1", "]">>, <<"{", "<a>">>, <<" ", " ">> }

\* the requests sent as a mapping
LambdaRequests ==
    {r \in Requests : r.t = "obj" /\ (dict_get(r, "return_json") = JBool(TRUE)
                                      \/ dict_get(r, "system_prompt") # JNull
                                      \/ dict_get(r, "model") = JStr(M_gpt4omini))}

Events ==
    {JObj(item("body", JStr(t))) : t \in BodyTexts}
    \cup {JObj(item("body", r)) : r \in LambdaRequests}
    \cup LambdaRequests
    \cup {JObj(item("body", JInt(5))), JObj(item("body", JNull)),
          JNull, JList(<<>>), Txt("event")}

Contexts == {NoContext, Context(Txt("req-1")), Context(Opaque)}

InitLambda ==
    /\ fs \in FsChoices
    /\ environ \in EnvChoices
    /\ adapters = client_adapters(environ)
    /\ Idle
    /\ arg \in [event : Events, context : Contexts]
    /\ ret = Pending

\* lambda_handler is entered: the request is read off the event and run is called,
\* or event.get raises and the except clause answers
HandlerEntry ==
    /\ ret = Pending
    /\ pc["a"] = "idle"
    /\ LET r == handler_request(arg.event) IN
       IF r.ok
       THEN /\ req' = [req EXCEPT !["a"] = r.val]
            /\ pc' = [pc EXCEPT !["a"] = "parse"]
            /\ meta' = [meta EXCEPT ![frame("a")] = new_meta(request_id_from(arg.context))]
            /\ ret' = ret
       ELSE /\ ret' = handler_except(r)
            /\ UNCHANGED <<req, pc, meta>>
    /\ UNCHANGED <<fs, environ, adapters, spec, prepared, result, wire, arg>>

\* run has returned or raised: the handler answers
HandlerReturn ==
    /\ ret = Pending
    /\ pc["a"] = "done"
    /\ ret' = handler_answer(result["a"])
    /\ UNCHANGED <<fs, environ, adapters, req, pc, spec, prepared, meta, result, wire, arg>>

NextLambda ==
    \/ HandlerEntry
    \/ ParseInput("a")
    \/ AllowlistCheck("a")
    \/ PrepareRequest("a")
    \/ CallProvider("a")
    \/ Respond("a")
    \/ HandlerReturn

SpecLambda == InitLambda /\ [][NextLambda]_vars

(***************************************************************************)
(* C23: the Lambda entrypoint answers with transport-level success on      *)
(* every path: for every event (body a JSON string, a mapping, malformed   *)
(* JSON, or an event that is not a mapping) and every pipeline outcome,    *)
(* lambda_handler returns statusCode 200 with a body that is the JSON      *)
(* serialization of an envelope with the keys raw, view, parse_error, meta.*)
(***************************************************************************)
C23_Keys == {ret.body.members[i].k : i \in DOMAIN ret.body.members}

C24_Again == prepare_request(fs, environ, ret.val.spec)

C24_InputUnchanged ==
    (ret # Pending /\ ret.ok) =>
        /\ ret.val.spec.messages = arg.messages
        /\ C24_Again.ok
        /\ C24_Again.val.prepared = ret.val.prepared

(***************************************************************************)
(* The options of one raw request, from parse_input to the adapter's cfg.  *)
(***************************************************************************)
\* max_tokens as callers write it: absent, null, numbers, numerals, words, a list
MaxTokensValues ==
    {Missing, JNull, JInt(7), JInt(0), JInt(0 - 1), JBool(FALSE), JBool(TRUE),
     JStr(<<" ", "1", "2", " ">>), JStr(<<"-", "5">>), JStr(<<"0">>), Txt("abc"), JStr(<<>>),
     JList(<<JInt(7)>>)}

OptionsValues ==
    {Missing, JNull, JInt(3)}
    \cup {JObj(item("max_tokens", v) @@ item("stream", st)) :
             v \in MaxTokensValues, st \in {Missing, JStr(S_yes)}}

OptionRequests ==
    {JObj(item("provider", JStr(p)) @@ item("user_prompt", Txt("hi")) @@ item("options", o)) :
        p \in {S_openai, S_gemini}, o \in OptionsValues}

InitOptions ==
    /\ fs \in {PromptFiles, PromptFiles @@ (AllowlistPath :> YamlFile(PolicyOpenAIOnly))}
    /\ environ = <<>>
    /\ adapters = client_adapters(environ)
    /\ Idle
    /\ arg \in OptionRequests
    /\ ret = Pending

\* step 1 of run
NormalizeOptions ==
    /\ ret = Pending
    /\ ret' = [at |-> "normalized", spec |-> parse_input(arg, fs)]
    /\ UNCHANGED <<fs, environ, adapters, req, pc, spec, prepared, meta, result, wire, arg>>

\* steps 2 to 4 of run up to cfg
ConfigureCall ==
    /\ ret # Pending
    /\ ret.at = "normalized"
    /\ ret.spec.ok
    /\ is_allowed(fs, ret.spec.val.provider, ret.spec.val.model, ret.spec.val.strict).val.ok
    /\ ret' = [at |-> "configured", spec |-> ret.spec,
               cfg |-> call_cfg(prepare_request(fs, environ, ret.spec.val).val.prepared)]
    /\ UNCHANGED <<fs, environ, adapters, req, pc, spec, prepared, meta, result, wire, arg>>

NextOptions == NormalizeOptions \/ ConfigureCall

SpecOptions == InitOptions /\ [][NextOptions]_vars

(***************************************************************************)
(* C25: for every raw request, the normalized options satisfy the          *)
(* CallOptions contract: max_tokens is a positive integer, equal to 1024   *)
(* when the field is absent or cannot be parsed, and the options value     *)
(* reaching the adapter configuration is the one produced by               *)
(* normalization, unchanged by allowlist gating and prompt assembly.       *)
(***************************************************************************)
\* the max_tokens field of the request, JNull when there is none
C25_Field ==
    LET o == dict_get(arg, "options") IN
    IF o.t = "obj" THEN dict_get(o, "max_tokens") ELSE JNull

\* the field holds nothing int() accepts
C25_Unparsable ==
    \/ C25_Field.t \in {"null", "list"}
    \/ C25_Field.t = "str" /\ \A i \in DOMAIN C25_Field.s : C25_Field.s[i] \notin {"0", "1", "2", "5"}

C25_MaxTokensPositive ==
    (ret # Pending /\ ret.spec.ok) =>
        /\ ret.spec.val.options.max_tokens \in Nat \ {0}
        /\ C25_Unparsable => ret.spec.val.options.max_tokens = DefaultMaxTokens
        /\ ret.at = "configured" =>
               /\ ret.cfg.max_tokens = ret.spec.val.options.max_tokens
               /\ ret.cfg.stream = ret.spec.val.options.stream

(***************************************************************************)
(* C26: in every envelope run returns, meta.steps records the stages as a  *)
(* prefix of the pipeline order and always ends with total_ms: call_ms is  *)
(* present only if prepare_ms is, prepare_ms only if allowlist_reason is,  *)
(* allowlist_reason only if parse_input_ms is; an allowlist-blocked        *)
(* envelope has allowlist_reason but neither prepare_ms nor call_ms; an    *)
(* envelope of a run whose adapter call raised has prepare_ms but no       *)
(* call_ms; total_ms is present in every envelope.                         *)
(***************************************************************************)
C26_Pipeline == <<"parse_input_ms", "allowlist_reason", "prepare_ms", "call_ms">>

\* the stage names of the envelope of invocation c, in the order they were recorded
C26_Stages(c) ==
    [i \in DOMAIN result[c].envelope.meta.steps |-> result[c].envelope.meta.steps[i].k]

C26_Has(c, k) == \E i \in DOMAIN C26_Stages(c) : C26_Stages(c)[i] = k

\* adapter.generate of invocation c raised, before the POST or after it
C26_AdapterRaised(c) ==
    \/ \E i \in DOMAIN wire :
           /\ wire[i].by = c /\ wire[i].response # JNull
           /\ ~generate_response(adapters[wire[i].provider], wire[i].response).ok
    \/ /\ result[c].envelope.parse_error # JNull
       /\ result[c].envelope.parse_error.s # <<>>
       /\ Head(result[c].envelope.parse_error.s) = "Missing environment variable: "

C26_StagesInOrder ==
    \A c \in Calls :
        (pc[c] = "done" /\ result[c].st = "returned") =>
            /\ \E n \in 0..Len(C26_Pipeline) :
                   C26_Stages(c) = SubSeq(C26_Pipeline, 1, n) \o <<"total_ms">>
            /\ result[c].envelope.meta.where = JStr(<<"allowlist">>) =>
                   /\ C26_Has(c, "allowlist_reason")
                   /\ ~C26_Has(c, "prepare_ms")
                   /\ ~C26_Has(c, "call_ms")
            /\ C26_AdapterRaised(c) =>
                   /\ C26_Has(c, "prepare_ms")
                   /\ ~C26_Has(c, "call_ms")

\* one run was blocked by the allowlist, the other got a 500 from the provider
C26_Witness ==
    \E c, d \in Calls :
        /\ pc[c] = "done" /\ pc[d] = "done"
        /\ result[c].envelope.meta.where = JStr(<<"allowlist">>)
        /\ C26_Stages(c) = <<"parse_input_ms", "allowlist_reason", "total_ms">>
        /\ \E i \in DOMAIN wire : wire[i].by = d /\ wire[i].response = TextResponse(500, <<"overloaded">>)
        /\ C26_Stages(d) = <<"parse_input_ms", "allowlist_reason", "prepare_ms", "total_ms">>

(***************************************************************************)
(* C27: envelope consistency: in every envelope run returns, meta.where is *)
(* non-null exactly when view is null; whenever view is null, raw is null  *)
(* and parse_error is non-null; whenever view is non-null, view.provider   *)
(* and view.model equal the normalized provider and model and meta.where   *)
(* is null.                                                                *)
(***************************************************************************)
C27_EnvelopeConsistent ==
    \A c \in Calls :
        (pc[c] = "done" /\ result[c].st = "returned") =>
            LET e == result[c].envelope IN
            /\ (e.meta.where # JNull) <=> (e.view = JNull)
            /\ e.view = JNull => (e.raw = JNull /\ e.parse_error # JNull)
            /\ e.view # JNull =>
                   /\ e.view.provider = spec[c].provider
                   /\ e.view.model = spec[c].model
                   /\ e.view.provider = parse_input(req[c], fs).val.provider
                   /\ e.view.model = parse_input(req[c], fs).val.model
                   /\ e.meta.where = JNull

\* one run failed at its input, the other came back with a view for ytl's default model
C27_Witness ==
    \E c, d \in Calls :
        /\ pc[c] = "done" /\ pc[d] = "done"
        /\ result[c].envelope.view = JNull
        /\ result[c].envelope.raw = JNull
        /\ result[c].envelope.meta.where = JStr(<<"LLMClient.run">>)
        /\ result[d].envelope.view # JNull
        /\ result[d].envelope.view.provider = S_ytl
        /\ result[d].envelope.view.model = M_ilmu
        /\ result[d].envelope.meta.where = JNull

(***************************************************************************)
(* C28: adapter lookup cannot miss through run: for every raw request, the *)
(* provider produced by normalization is a key of the client's adapter     *)
(* table (openai, ytl, gemini), so no invocation of run returns an         *)
(* envelope with meta.where = "adapter_select" or a parse_error starting   *)
(* with "unsupported provider".                                            *)
(***************************************************************************)
C28_AdapterAlwaysFound ==
    \A c \in Calls :
        /\ DOMAIN adapters = {S_openai, S_ytl, S_gemini}
        /\ spec[c] # JNull => spec[c].provider \in DOMAIN adapters
        /\ (pc[c] = "done" /\ result[c].st = "returned") =>
               /\ result[c].envelope.meta.where # JStr(<<"adapter_select">>)
               /\ (result[c].envelope.parse_error # JNull
                   /\ result[c].envelope.parse_error.s # <<>>) =>
                      Head(result[c].envelope.parse_error.s) # "unsupported provider: "

\* a request naming a provider the client has no adapter for was sent to ytl
C28_Witness ==
    \E c \in Calls :
        /\ pc[c] = "done"
        /\ req[c].t = "obj"
        /\ dict_get(req[c], "provider") = JStr(capitalize(S_azure))
        /\ spec[c].provider = S_ytl
        /\ \E i \in DOMAIN wire : wire[i].by = c /\ wire[i].provider = S_ytl
        /\ result[c].envelope.view # JNull

====
